---------------------------- MODULE Spec2Model ----------------------------
(***************************************************************************)
(* The ibis template engine bundled with vim-python-docstring              *)
(* (src/python/ibis): lexer, compiler, expression evaluator, context and   *)
(* node rendering, as a state machine.                                     *)
(*                                                                         *)
(* Python strings are TLA+ strings, joined with \o.  A tag body is kept as *)
(* the sequence of its whitespace-separated words, a template source       *)
(* either as a sequence of characters (the lexer) or as the sequence of    *)
(* tokens the lexer yields for it.                                         *)
(***************************************************************************)
EXTENDS Integers, Sequences, FiniteSets

VARIABLES
    chars,      \* Lexer.string: the source handed to Template(), as characters
    tokens,     \* the token stream Template._parse consumes
    pos,        \* index of the next token of the stream
    stack,      \* Template._parse: the open-node stack (node ids)
    expecting,  \* Template._parse: the expected-end-tag stack
    cstate,     \* "lex", "new", "parse", "ok" or the exception raised
    cmsg,       \* the words the exception message is built from
    world,      \* shared state: node heap, loader cache, config.builtins
    tmpl,       \* the Template object: root node and block registry
    ctx,        \* per render call: its Context (stack, stash, data)
    rpc,        \* per render call: "off" (never made), "idle", "run", "done"
                \* or the exception raised
    rpos,       \* per render call: index of the next child of the root
    out,        \* per render call: the output joined so far
    rdata       \* per render call: the data dictionary the caller passed

vars == <<chars, tokens, pos, stack, expecting, cstate, cmsg, world, tmpl,
          ctx, rpc, rpos, out, rdata>>

----------------------------------------------------------------------------
(* Bounds of the model.                                                    *)

MaxTokens == 4
MaxChars == 5
NRenders == 2

Renders == 1..NRenders

----------------------------------------------------------------------------
(* Sequences and dictionaries.                                             *)

Last(s) == s[Len(s)]
Front(s) == SubSeq(s, 1, Len(s) - 1)

EmptyDict == [k \in {} |-> 0]
DictSet(d, k, v) == [x \in (DOMAIN d) \cup {k} |-> IF x = k THEN v ELSE d[x]]
DictUpdate(d, e) == [x \in (DOMAIN d) \cup (DOMAIN e) |->
                        IF x \in DOMAIN e THEN e[x] ELSE d[x]]

RECURSIVE JoinWith(_, _)
JoinWith(ws, sep) ==
    IF ws = <<>> THEN ""
    ELSE IF Len(ws) = 1 THEN ws[1]
    ELSE ws[1] \o sep \o JoinWith(Tail(ws), sep)

Join(ws) == JoinWith(ws, "")
JoinWords(ws) == JoinWith(ws, " ")

\* The pieces of ws between the words of seps; with keep, the separators too.
RECURSIVE SplitOn(_, _, _, _)
SplitOn(ws, seps, keep, cur) ==
    IF ws = <<>> THEN <<cur>>
    ELSE IF ws[1] \in seps
         THEN <<cur>> \o (IF keep THEN <<(<<ws[1]>>)>> ELSE <<>>)
                      \o SplitOn(Tail(ws), seps, keep, <<>>)
         ELSE SplitOn(Tail(ws), seps, keep, Append(cur, ws[1]))

----------------------------------------------------------------------------
(* Python values.                                                          *)

Val(t, s, n, xs, d) == [t |-> t, s |-> s, n |-> n, xs |-> xs, d |-> d]
VStr(s) == Val("str", s, 0, <<>>, EmptyDict)
VInt(n) == Val("int", "", n, <<>>, EmptyDict)
VBool(b) == Val("bool", "", IF b THEN 1 ELSE 0, <<>>, EmptyDict)
VNone == Val("none", "", 0, <<>>, EmptyDict)
VTuple(xs) == Val("tuple", "", 0, xs, EmptyDict)
VList(xs) == Val("list", "", 0, xs, EmptyDict)
VDict(d) == Val("dict", "", 0, <<>>, d)
\* an iterator that yields nothing (iter([]), a generator without items):
\* an object without __bool__ and __len__, reading it leaves it as it is
VEmptyIter == Val("iter", "", 0, <<>>, EmptyDict)
\* errors.Undefined
Undefined == Val("undefined", "", 0, <<>>, EmptyDict)
\* the Context object itself, a bound method of it, its stash attribute
VContext == Val("context", "", 0, <<>>, EmptyDict)
VMethod(name) == Val("method", name, 0, <<>>, EmptyDict)
VStash == Val("stash", "", 0, <<>>, EmptyDict)
\* a callable of config.builtins (range, datetime.now)
VBuiltin(name) == Val("builtin", name, 0, <<>>, EmptyDict)
\* the lambda BlockNode.render_block binds to 'super': n is the block node
\* whose render started the chain, s the key of the shared block_list
VSuper(node, key) == Val("super", "", node, <<key>>, EmptyDict)

Digit == <<"0", "1", "2", "3", "4", "5", "6", "7", "8", "9">>

RECURSIVE NatStr(_)
NatStr(n) == IF n < 10 THEN Digit[n + 1]
             ELSE NatStr(n \div 10) \o Digit[(n % 10) + 1]

IntStr(n) == IF n < 0 THEN "-" \o NatStr(0 - n) ELSE NatStr(n)

\* operator.truth / bool(v)
Truth(v) ==
    CASE v.t = "str" -> v.s # ""
      [] v.t = "int" -> v.n # 0
      [] v.t = "bool" -> v.n = 1
      [] v.t = "none" -> FALSE
      [] v.t = "undefined" -> FALSE
      [] v.t \in {"tuple", "list"} -> v.xs # <<>>
      [] v.t = "dict" -> DOMAIN v.d # {}
      [] OTHER -> TRUE

\* callable(v)
Callable(v) == v.t \in {"method", "builtin", "super"}

\* hasattr(v, '__iter__')
Iterable(v) == v.t \in {"str", "tuple", "list", "dict", "undefined", "iter"}

\* list(v) for an iterable v, for strings and dictionaries of at most one
\* element (a longer string yields its characters, a dictionary its keys)
Items(v) == CASE v.t \in {"tuple", "list", "iter"} -> v.xs
              [] v.t = "str" /\ Len(v.s) <= 1 ->
                    IF v.s = "" THEN <<>> ELSE <<VStr(v.s)>>
              [] v.t = "dict" /\ Cardinality(DOMAIN v.d) <= 1 ->
                    IF DOMAIN v.d = {} THEN <<>>
                    ELSE <<VStr(CHOOSE k \in DOMAIN v.d : TRUE)>>
              [] v.t = "undefined" -> <<>>

RECURSIVE Repr(_)
RECURSIVE ReprAll(_)
\* repr(v): what str() shows of an element of a container
Repr(v) ==
    CASE v.t = "str" -> "'" \o v.s \o "'"
      [] v.t = "int" -> IntStr(v.n)
      [] v.t = "bool" -> IF v.n = 1 THEN "True" ELSE "False"
      [] v.t = "none" -> "None"
      [] v.t = "tuple" -> IF Len(v.xs) = 1 THEN "(" \o Repr(v.xs[1]) \o ",)"
                          ELSE "(" \o JoinWith(ReprAll(v.xs), ", ") \o ")"
      [] v.t = "list" -> "[" \o JoinWith(ReprAll(v.xs), ", ") \o "]"
      [] v.t = "dict" -> IF DOMAIN v.d = {} THEN "{}" ELSE "{...}"
      [] OTHER -> "<" \o v.t \o ">"
ReprAll(xs) == [i \in 1..Len(xs) |-> Repr(xs[i])]

\* str(v).  The stash maps node objects to iterators: once a cycle node has
\* stored one, its text carries object addresses, shown here as "{...}".
Str(v, stash) ==
    CASE v.t = "str" -> v.s
      [] v.t = "undefined" -> ""
      [] v.t = "stash" -> IF DOMAIN stash = {} THEN "{}" ELSE "{...}"
      [] OTHER -> Repr(v)

----------------------------------------------------------------------------
(* The state a compile or a render works on.  T.w is the state every       *)
(* Template and Context shares (the node heap, the loader's cache of       *)
(* compiled templates, the config.builtins dictionary), T.c the Context of *)
(* one render call, T.err the exception raised ("" for none), T.v the      *)
(* value and T.o the string the last call returned.                        *)

Thread(w, c) == [w |-> w, c |-> c, err |-> "", msg |-> <<>>, v |-> VNone, o |-> ""]
Raise(T, err, msg) == [T EXCEPT !.err = err, !.msg = msg]
Return(T, v) == [T EXCEPT !.v = v]
Output(T, o) == [T EXCEPT !.o = o]

\* K applied to v: gives a name to a value that is used more than once.
Let(v, K(_)) == K(v)

\* K applied to the state R a call left, unless the call raised.
Then(R, K(_)) == IF R.err # "" THEN R ELSE K(R)

\* config.builtins
config_builtins ==
    [delimiters |-> VDict([print_start |-> VStr("{{"), print_end |-> VStr("}}")]),
     now |-> VBuiltin("now"),
     range |-> VBuiltin("range")]

\* One dictionary of Context.stack.  config.builtins and the caller's data
\* are held by reference, the dictionaries a Context creates by value.
Own(d) == [ref |-> "own", d |-> d]
BuiltinsRef == [ref |-> "builtins", d |-> EmptyDict]
DataRef == [ref |-> "data", d |-> EmptyDict]

ScopeDict(T, e) ==
    CASE e.ref = "builtins" -> T.w.builtins
      [] e.ref = "data" -> T.c.data
      [] OTHER -> e.d

\* Context.__init__.  lists holds the block_list objects BlockNode.render
\* makes, calls and cur record which block body asked for which block,
\* rendered the Block nodes BlockNode.render was called on.
Context_init(data, template) ==
    [stack |-> << Own([context |-> VContext, defined |-> VMethod("defined")]),
                  BuiltinsRef,
                  DataRef >>,
     stash |-> EmptyDict,
     template |-> template,
     data |-> data,
     lists |-> <<>>,
     calls |-> <<>>,
     cur |-> 0,
     rendered |-> {}]

\* The topmost dictionary of the stack holding key, 0 if there is none.
RECURSIVE FindScope(_, _, _)
FindScope(T, key, i) ==
    IF i = 0 THEN 0
    ELSE IF key \in DOMAIN ScopeDict(T, T.c.stack[i]) THEN i
    ELSE FindScope(T, key, i - 1)

\* Context.__contains__
Context_contains(T, key) == FindScope(T, key, Len(T.c.stack)) # 0

\* A variant of Context_get that scans the stack from the bottom up.
RECURSIVE FindScopeUp(_, _, _)
FindScopeUp(T, key, i) ==
    IF i > Len(T.c.stack) THEN 0
    ELSE IF key \in DOMAIN ScopeDict(T, T.c.stack[i]) THEN i
    ELSE FindScopeUp(T, key, i + 1)
Context_get_bottom(T, key, default) ==
    LET i == FindScopeUp(T, key, 1)
    IN IF i = 0 THEN default ELSE ScopeDict(T, T.c.stack[i])[key]

\* Context.get
Context_get(T, key, default) ==
    LET i == FindScope(T, key, Len(T.c.stack))
    IN IF i = 0 THEN default ELSE ScopeDict(T, T.c.stack[i])[key]

\* self.stack[-1].update(d), for a non-empty stack
WriteTop(T, d) ==
    LET n == Len(T.c.stack)
        e == T.c.stack[n]
    IN CASE e.ref = "builtins" ->
                [T EXCEPT !.w.builtins = DictUpdate(T.w.builtins, d)]
         [] e.ref = "data" ->
                [T EXCEPT !.c.data = DictUpdate(T.c.data, d)]
         [] OTHER ->
                [T EXCEPT !.c.stack[n] = Own(DictUpdate(e.d, d))]

\* Context.__setitem__
Context_setitem(T, key, value) == WriteTop(T, DictSet(EmptyDict, key, value))

\* Context.update
Context_update(T, d) == WriteTop(T, d)

\* Context.push
Context_push(T) == [T EXCEPT !.c.stack = Append(@, Own(EmptyDict))]

\* Context.pop
Context_pop(T) == [T EXCEPT !.c.stack = Front(@)]

\* The data attributes and the methods getattr finds on a Context.
ContextAttrs == {"stack", "stash", "template"}
ContextMethods == {"resolve", "push", "pop", "defined", "get", "update"}

\* The attributes of the builtin types, among the names templates use.
TypeAttrs(t) ==
    CASE t = "str" -> {"index", "count"}
      [] t = "tuple" -> {"index", "count"}
      [] t = "dict" -> {"get", "pop", "update"}
      [] OTHER -> {}

\* Dotted paths: varstring.split('.')
Dotted == [p \in {"loop.index", "loop.count", "loop.length", "loop.is_first",
                  "loop.is_last", "loop.parent", "loop.parent.index",
                  "loop.parent.length", "loop.parent.parent", "context.pop",
                  "context.update", "context.stash"} |->
    CASE p = "loop.index" -> <<"loop", "index">>
      [] p = "loop.count" -> <<"loop", "count">>
      [] p = "loop.length" -> <<"loop", "length">>
      [] p = "loop.is_first" -> <<"loop", "is_first">>
      [] p = "loop.is_last" -> <<"loop", "is_last">>
      [] p = "loop.parent" -> <<"loop", "parent">>
      [] p = "loop.parent.index" -> <<"loop", "parent", "index">>
      [] p = "loop.parent.length" -> <<"loop", "parent", "length">>
      [] p = "loop.parent.parent" -> <<"loop", "parent", "parent">>
      [] p = "context.pop" -> <<"context", "pop">>
      [] p = "context.update" -> <<"context", "update">>
      [] p = "context.stash" -> <<"context", "stash">>]

Segments(varstring) ==
    IF varstring \in DOMAIN Dotted THEN Dotted[varstring] ELSE <<varstring>>

\* obj[token]: found is FALSE where Python raises TypeError or KeyError
GetItem(T, obj, token) ==
    CASE obj.t = "context" ->
            [found |-> Context_contains(T, token),
             v |-> Context_get(T, token, Undefined)]
      [] obj.t = "dict" ->
            [found |-> token \in DOMAIN obj.d,
             v |-> IF token \in DOMAIN obj.d THEN obj.d[token] ELSE Undefined]
      [] OTHER -> [found |-> FALSE, v |-> Undefined]

\* getattr(obj, token): found is FALSE where Python raises AttributeError
GetAttr(obj, token) ==
    CASE obj.t = "context" /\ token = "stash" -> [found |-> TRUE, v |-> VStash]
      [] obj.t = "context" /\ token \in ContextAttrs \ {"stash"} ->
            [found |-> TRUE, v |-> Val(token, "", 0, <<>>, EmptyDict)]
      [] obj.t = "context" /\ token \in ContextMethods ->
            [found |-> TRUE, v |-> VMethod(token)]
      [] obj.t # "context" /\ token \in TypeAttrs(obj.t) ->
            [found |-> TRUE, v |-> VBuiltin(obj.t \o "." \o token)]
      [] OTHER -> [found |-> FALSE, v |-> Undefined]

RECURSIVE ResolveFrom(_, _, _)
ResolveFrom(T, obj, segs) ==
    IF segs = <<>> THEN obj
    ELSE LET item == GetItem(T, obj, segs[1])
             attr == GetAttr(obj, segs[1])
         IN IF item.found THEN ResolveFrom(T, item.v, Tail(segs))
            ELSE IF attr.found THEN ResolveFrom(T, attr.v, Tail(segs))
            ELSE Undefined

\* Context.resolve
Context_resolve(T, varstring) == ResolveFrom(T, VContext, Segments(varstring))

\* A variant of Context_defined that asks for a true value.
Context_defined_true(T, varstring) == Truth(Context_resolve(T, varstring))

\* Context.defined
Context_defined(T, varstring) == Context_resolve(T, varstring).t # "undefined"

----------------------------------------------------------------------------
(* Expressions.  ibis/utils.py and ibis/filters.py are not among the       *)
(* sources: splitc, splitre and the filter table follow the specification  *)
(* (section 4.3: split on the delimiter outside quoted strings; section 6: *)
(* the default filters).                                                   *)

\* utils.splitc(s, delimiter, strip=True)
utils_splitc(ws, delimiter) == SplitOn(ws, {delimiter}, FALSE, <<>>)

\* utils.splitre(s, delimiters, keep_delimiters)
utils_splitre(ws, delimiters, keep) == SplitOn(ws, delimiters, keep, <<>>)

\* filters.filtermap: the names registered
filtermap == {"escape", "spaceless", "default"}

\* html escaping, on the strings of the model that hold a special character
EscapeTable == [s \in {"<b>", "&"} |-> IF s = "&" THEN "&amp;" ELSE "&lt;b&gt;"]
Escape(s) == IF s \in DOMAIN EscapeTable THEN EscapeTable[s] ELSE s

\* What ast.literal_eval makes of the literals templates of the model use;
\* it raises on every other string.
Literals ==
    [w \in {"'yes'", "'no'", "'a'", "'b'", "''", "0", "1", "2", "None", "True",
            "False", "{}", "()", "'a', 'b'", "1, 2", "1, 2, 3", "{'z': 'Z'}",
            "'x'", "\"x\"", "'z'", "'base'", "'mid'", "'mid2'"} |->
        CASE w = "'yes'" -> VStr("yes")
          [] w = "'no'" -> VStr("no")
          [] w = "'a'" -> VStr("a")
          [] w = "'b'" -> VStr("b")
          [] w = "'x'" -> VStr("x")
          [] w = "\"x\"" -> VStr("x")
          [] w = "'z'" -> VStr("z")
          [] w = "''" -> VStr("")
          [] w = "0" -> VInt(0)
          [] w = "1" -> VInt(1)
          [] w = "2" -> VInt(2)
          [] w = "None" -> VNone
          [] w = "True" -> VBool(TRUE)
          [] w = "False" -> VBool(FALSE)
          [] w = "{}" -> VDict(EmptyDict)
          [] w = "()" -> VTuple(<<>>)
          [] w = "'a', 'b'" -> VTuple(<<VStr("a"), VStr("b")>>)
          [] w = "1, 2" -> VTuple(<<VInt(1), VInt(2)>>)
          [] w = "1, 2, 3" -> VTuple(<<VInt(1), VInt(2), VInt(3)>>)
          [] w = "{'z': 'Z'}" -> VDict([z |-> VStr("Z")])
          [] w = "'base'" -> VStr("base")
          [] w = "'mid'" -> VStr("mid")
          [] w = "'mid2'" -> VStr("mid2")]

\* ast.literal_eval succeeds
IsLiteral(ws) == Len(ws) = 1 /\ ws[1] \in DOMAIN Literals

\* A word the pattern [a-zA-Z_][a-zA-Z0-9_.]* matches whole.
Identifiers == {"a", "x", "y", "z", "f", "foo", "items", "super", "loop", "self",
                "context", "defined", "range", "now", "delimiters", "stack",
                "stash", "template", "resolve", "push", "pop", "get", "update",
                "context.pop", "context.update", "context.stash", "loop.index",
                "loop.count", "loop.length", "loop.is_first", "loop.is_last",
                "loop.parent", "loop.parent.index", "loop.parent.length",
                "loop.parent.parent"}

\* Expression.re_callable matches: name(args)
IsCallForm(ws) ==
    Len(ws) >= 3 /\ ws[1] \in Identifiers /\ ws[2] = "(" /\ Last(ws) = ")"

\* The pieces of a split that are not empty (discard_empty=True).
NonEmpty(pieces) == SelectSeq(pieces, LAMBDA p : p # <<>>)

\* Expression._parse_callable: the name
CallableName(ws) ==
    IF IsCallForm(ws) THEN ws[1] ELSE JoinWords(utils_splitc(ws, ":")[1])

\* Expression._parse_callable: the argument strings
CallableArgs(ws) ==
    IF IsCallForm(ws) THEN NonEmpty(utils_splitc(SubSeq(ws, 3, Len(ws) - 1), ","))
    ELSE Tail(utils_splitc(ws, ":"))

\* Expression._parse_callable, the loop over args: bad holds the arguments
\* literal_eval cannot parse
LiteralArgs(name, args, bad) ==
    IF bad # <<>>
    THEN [err |-> "TemplateSyntaxError",
          msg |-> <<"unparsable argument", JoinWords(bad[1])>>,
          name |-> name, args |-> <<>>]
    ELSE [err |-> "", msg |-> <<>>, name |-> name,
          args |-> [i \in 1..Len(args) |-> Literals[args[i][1]]]]

\* Expression._parse_callable
Expression_parse_callable(ws) ==
    Let(CallableArgs(ws), LAMBDA args :
        LiteralArgs(CallableName(ws), args,
                    SelectSeq(args, LAMBDA a : ~IsLiteral(a))))

\* A variant of AddFilter that does not look the name up in filtermap.
AddFilter_unchecked(c, rest) ==
    IF c.err # "" THEN [err |-> c.err, msg |-> c.msg, filters |-> <<>>]
    ELSE IF rest.err # "" THEN rest
    ELSE [err |-> "", msg |-> <<>>,
          filters |-> <<[name |-> c.name, args |-> c.args]>> \o rest.filters]

\* Expression._parse_filters, one turn of the loop: c the filter parsed,
\* rest the filters after it
AddFilter(c, rest) ==
    IF c.err # "" THEN [err |-> c.err, msg |-> c.msg, filters |-> <<>>]
    ELSE IF c.name \notin filtermap
    THEN [err |-> "InvalidFilter", msg |-> <<c.name>>, filters |-> <<>>]
    ELSE IF rest.err # "" THEN rest
    ELSE [err |-> "", msg |-> <<>>,
          filters |-> <<[name |-> c.name, args |-> c.args]>> \o rest.filters]

\* Expression._parse_filters: (name, args) of every filter, or the first
\* error
RECURSIVE Expression_parse_filters(_)
Expression_parse_filters(filterlist) ==
    IF filterlist = <<>> THEN [err |-> "", msg |-> <<>>, filters |-> <<>>]
    ELSE AddFilter(Expression_parse_callable(filterlist[1]),
                   Expression_parse_filters(Tail(filterlist)))

\* One filter function applied: ok is FALSE where it raises.
ApplyFilter(name, obj, args, stash) ==
    CASE name = "escape" -> [ok |-> TRUE, v |-> VStr(Escape(Str(obj, stash)))]
      [] name = "default" ->
            [ok |-> Len(args) <= 1,
             v |-> IF Truth(obj) THEN obj
                   ELSE IF Len(args) = 1 THEN args[1] ELSE VStr("")]
      [] name = "spaceless" -> [ok |-> obj.t = "str", v |-> obj]

\* Expression._apply_filters
RECURSIVE Expression_apply_filters(_, _, _, _)
Expression_apply_filters(T, filters, obj, expr) ==
    IF filters = <<>> THEN Return(T, obj)
    ELSE Let(ApplyFilter(filters[1].name, obj, filters[1].args, T.c.stash),
             LAMBDA r :
                IF r.ok
                THEN Expression_apply_filters(T, Tail(filters), r.v, expr)
                ELSE Raise(T, "FilterError", <<filters[1].name, JoinWords(expr)>>))

NoContext == [stack |-> <<>>, stash |-> EmptyDict, data |-> EmptyDict]
NoThread == Thread([nodes |-> <<>>], NoContext)

\* Expression._parse_expression
Expression_parse_expression(head) ==
    IF IsLiteral(head) THEN [err |-> "", msg |-> <<>>, name |-> "", args |-> <<>>]
    ELSE Expression_parse_callable(head)

\* Expression.__init__, its last statement: the filters applied to a literal
FilteredLiteral(ws, head, fl) ==
    IF IsLiteral(head) /\ fl.err = ""
    THEN Expression_apply_filters(NoThread, fl.filters, Literals[head[1]], ws)
    ELSE NoThread

\* The Expression object, or the first exception of its construction.
ExpressionOf(ws, head, call, fl, lit) ==
    [err |-> IF call.err # "" THEN call.err
             ELSE IF fl.err # "" THEN fl.err ELSE lit.err,
     msg |-> IF call.err # "" THEN call.msg
             ELSE IF fl.err # "" THEN fl.msg ELSE lit.msg,
     e |-> [expr |-> ws, is_literal |-> IsLiteral(head), literal |-> lit.v,
            varstr |-> call.name, varargs |-> call.args,
            filters |-> fl.filters]]

\* Expression.__init__
Expression_init(ws) ==
    Let(utils_splitc(ws, "|"), LAMBDA elements :
    Let(Expression_parse_filters(Tail(elements)), LAMBDA fl :
        ExpressionOf(ws, elements[1], Expression_parse_expression(elements[1]),
                     fl, FilteredLiteral(ws, elements[1], fl))))

----------------------------------------------------------------------------
(* Tokens, the tag registry and the node classes.                          *)

\* Lexer.token: content is the list of words of the tag body; a text token
\* holds its text as one word.
Token(type, tag, content) == [type |-> type, tag |-> tag, content |-> content]
NoToken == Token("none", "", <<>>)
TextTok(s) == Token("text", "", <<s>>)
PrintTok(ws) == Token("print", "", ws)
EPrintTok(ws) == Token("eprint", "", ws)
SyntaxTok(ws) == Token("syntax", ws[1], ws)

\* nodes.nodemap after the module is loaded: the registered tags with the
\* end tag of each ("" for None), and the list under the key 'endtags'
nodemap ==
    [node |-> "", root |-> "", text |-> "", print |-> "", eprint |-> "",
     for |-> "endfor", empty |-> "", if |-> "endif", elif |-> "", else |-> "",
     cycle |-> "", include |-> "", extends |-> "", block |-> "endblock",
     spaceless |-> "endspaceless", trim |-> "endtrim", with |-> "endwith"]

nodemap_endtags == {nodemap[t] : t \in DOMAIN nodemap} \ {""}

\* token.tag in nodes.nodemap: the dictionary also has the key 'endtags'
InNodemap(tag) == tag \in (DOMAIN nodemap) \cup {"endtags"}

NewNode(type, token, children) ==
    [type |-> type, token |-> token, children |-> children,
     end_tag |-> nodemap[type], exprs |-> <<>>, names |-> <<>>, br |-> <<>>,
     flag |-> FALSE, groups |-> <<>>, exits |-> 0]

\* The state of a compile: the shared state w, the two stacks of _parse,
\* the exception raised, the id of the node the last call made.
NoTemplate == [root |-> 0, registry |-> EmptyDict]
Compile(w) == [w |-> w, stack |-> <<>>, expecting |-> <<>>, err |-> "",
               msg |-> <<>>, id |-> 0, tpl |-> NoTemplate]
CRaise(C, err, msg) == [C EXCEPT !.err = err, !.msg = msg]

\* A node object allocated on the heap.
Alloc(C, node) == [C EXCEPT !.w.nodes = Append(@, node),
                            !.id = Len(C.w.nodes) + 1]

\* The expressions of a list compiled: the first error, or all of them.
AddExpression(x, rest) ==
    IF x.err # "" THEN [err |-> x.err, msg |-> x.msg, es |-> <<>>]
    ELSE IF rest.err # "" THEN rest
    ELSE [err |-> "", msg |-> <<>>, es |-> <<x.e>> \o rest.es]

RECURSIVE Expressions(_)
Expressions(list) ==
    IF list = <<>> THEN [err |-> "", msg |-> <<>>, es |-> <<>>]
    ELSE AddExpression(Expression_init(list[1]), Expressions(Tail(list)))

\* The node object with the attributes process_token has set, or the
\* exception x holds.
NodeWith(C, node, x) ==
    IF x.err # "" THEN CRaise(C, x.err, x.msg) ELSE Alloc(C, node)

\* PrintNode.process_token, the test for the ternary operator
IsTernary(chunks) ==
    Len(chunks) = 5 /\ chunks[2] = <<"??">> /\ chunks[4] = <<"::">>

\* PrintNode.process_token
PrintNode_process_token(C, node) ==
    Let(utils_splitre(node.token.content, {"??", "::"}, TRUE), LAMBDA chunks :
    Let(Expressions(IF IsTernary(chunks)
                    THEN <<chunks[1], chunks[3], chunks[5]>>
                    ELSE utils_splitre(node.token.content, {"or", "||"}, FALSE)),
        LAMBDA x :
            NodeWith(C, [node EXCEPT !.flag = IsTernary(chunks), !.exprs = x.es],
                     x)))

\* The words \w+ matches.
WordW == {w \in Identifiers : w \notin {"context.pop", "context.update",
              "context.stash", "loop.index", "loop.count", "loop.length",
              "loop.is_first", "loop.is_last", "loop.parent",
              "loop.parent.index", "loop.parent.length", "loop.parent.parent"}}
         \cup {"i", "k", "v", "in", "0", "1", "2"}

\* The length of the longest prefix of ws of the form w , w , ... w
RECURSIVE VarListLen(_)
VarListLen(ws) ==
    IF ws = <<>> \/ ws[1] \notin WordW THEN 0
    ELSE IF Len(ws) >= 3 /\ ws[2] = "," /\ VarListLen(SubSeq(ws, 3, Len(ws))) > 0
         THEN 2 + VarListLen(SubSeq(ws, 3, Len(ws)))
         ELSE 1

\* ForNode.process_token: ForNode.regex is for\s+(\w+(?:,\s*\w+)*)\s+in\s+(.+)
\* and n the number of words its first group matches
ForNode_matched(C, node, ws, n) ==
    IF ~(n > 0 /\ Len(ws) >= n + 3 /\ ws[n + 2] = "in")
    THEN CRaise(C, "TemplateSyntaxError", <<"malformed [for] tag">>)
    ELSE Let(Expression_init(SubSeq(ws, n + 3, Len(ws))), LAMBDA x :
             NodeWith(C, [node EXCEPT
                             !.names = SelectSeq(SubSeq(ws, 2, n + 1),
                                                 LAMBDA w : w # ","),
                             !.exprs = <<x.e>>],
                      x))

ForNode_process_token(C, node) ==
    ForNode_matched(C, node, node.token.content,
                    VarListLen(Tail(node.token.content)))

\* IfNode.operators
operators == {"==", "!=", "<", ">", "<=", ">=", "in", "not in"}

\* The operator of IfNode.re_condition standing at ws[k], "" if none.
OperatorAt(ws, k) ==
    IF ws[k] = "not" /\ k + 1 <= Len(ws) /\ ws[k + 1] = "in" THEN "not in"
    ELSE IF ws[k] \in operators THEN ws[k]
    ELSE ""

\* The first k >= from where (.+?)\s+(op)\s+(.+) can match: an operator at
\* k, a left side before it and a right side after it; 0 if there is none.
RECURSIVE FindOperator(_, _)
FindOperator(ws, k) ==
    IF k >= Len(ws) THEN 0
    ELSE IF OperatorAt(ws, k) # ""
            /\ k + (IF OperatorAt(ws, k) = "not in" THEN 2 ELSE 1) <= Len(ws)
    THEN k
    ELSE FindOperator(ws, k + 1)

\* The Condition tuple, or the first exception of its two expressions.
ConditionOf(negated, lhs, op, rhs) ==
    IF lhs.err # "" THEN [err |-> lhs.err, msg |-> lhs.msg, cond |-> <<>>]
    ELSE IF rhs.err # "" THEN [err |-> rhs.err, msg |-> rhs.msg, cond |-> <<>>]
    ELSE [err |-> "", msg |-> <<>>,
          cond |-> [negated |-> negated, lhs |-> lhs.e, op |-> op, rhs |-> rhs.e]]

\* IfNode.parse_condition where re_condition matched its first alternative:
\* the operator stands at k, the left side starts at first
ConditionWithOperator(ws, first, k, op) ==
    ConditionOf(first = 2,
                Expression_init(SubSeq(ws, first, k - 1)),
                op,
                Expression_init(SubSeq(ws, k + (IF op = "not in" THEN 2 ELSE 1),
                                       Len(ws))))

\* IfNode.parse_condition where it matched its second alternative
ConditionWithoutOperator(ws, neg) ==
    ConditionOf(neg, Expression_init(IF neg THEN Tail(ws) ELSE ws), "",
                Expression_init(<<"None">>))

\* IfNode.parse_condition: neg says that the string starts with 'not ',
\* kneg and kpos where the operator stands with and without that prefix
\* taken as the negation
ConditionMatched(ws, neg, kneg, kpos) ==
    IF kneg # 0 THEN ConditionWithOperator(ws, 2, kneg, OperatorAt(ws, kneg))
    ELSE IF kpos # 0 THEN ConditionWithOperator(ws, 1, kpos, OperatorAt(ws, kpos))
    ELSE ConditionWithoutOperator(ws, neg)

IfNode_parse_condition(condstr) ==
    IF condstr = <<>> THEN [err |-> "AttributeError", msg |-> <<>>, cond |-> <<>>]
    ELSE ConditionMatched(condstr,
                          Len(condstr) >= 2 /\ condstr[1] = "not",
                          IF Len(condstr) >= 2 /\ condstr[1] = "not"
                          THEN FindOperator(condstr, 3) ELSE 0,
                          FindOperator(condstr, 2))

AddCondition(c, rest) ==
    IF c.err # "" THEN [err |-> c.err, msg |-> c.msg, conds |-> <<>>]
    ELSE IF rest.err # "" THEN rest
    ELSE [err |-> "", msg |-> <<>>, conds |-> <<c.cond>> \o rest.conds]

RECURSIVE Conditions(_)
Conditions(list) ==
    IF list = <<>> THEN [err |-> "", msg |-> <<>>, conds |-> <<>>]
    ELSE AddCondition(IfNode_parse_condition(list[1]), Conditions(Tail(list)))

AddGroup(g, rest) ==
    IF g.err # "" THEN [err |-> g.err, msg |-> g.msg, groups |-> <<>>]
    ELSE IF rest.err # "" THEN rest
    ELSE [err |-> "", msg |-> <<>>, groups |-> <<g.conds>> \o rest.groups]

RECURSIVE ConditionGroups(_)
ConditionGroups(or_blocks) ==
    IF or_blocks = <<>> THEN [err |-> "", msg |-> <<>>, groups |-> <<>>]
    ELSE AddGroup(Conditions(utils_splitre(or_blocks[1], {"and", "&&"}, FALSE)),
                  ConditionGroups(Tail(or_blocks)))

\* A variant of IfNode_process_token that keeps the first group only.
IfNode_process_token_first(C, node) ==
    IF Len(node.token.content) < 2
    THEN CRaise(C, "TemplateSyntaxError", <<"malformed tag", node.token.tag>>)
    ELSE Let(ConditionGroups(SubSeq(utils_splitre(Tail(node.token.content),
                                                  {"or", "||"}, FALSE), 1, 1)),
             LAMBDA g : NodeWith(C, [node EXCEPT !.groups = g.groups], g))

\* IfNode.process_token
IfNode_process_token(C, node) ==
    IF Len(node.token.content) < 2
    THEN CRaise(C, "TemplateSyntaxError", <<"malformed tag", node.token.tag>>)
    ELSE Let(ConditionGroups(utils_splitre(Tail(node.token.content),
                                           {"or", "||"}, FALSE)),
             LAMBDA g : NodeWith(C, [node EXCEPT !.groups = g.groups], g))

\* CycleNode.process_token
CycleNode_process_token(C, node) ==
    IF Len(node.token.content) < 2
    THEN CRaise(C, "TemplateSyntaxError", <<"malformed [cycle] tag">>)
    ELSE Let(Expression_init(Tail(node.token.content)), LAMBDA x :
             NodeWith(C, [node EXCEPT !.exprs = <<x.e>>], x))

\* BlockNode.process_token
BlockNode_process_token(C, node) ==
    Alloc(C, [node EXCEPT !.names = <<JoinWords(Tail(node.token.content))>>])

\* The index of the first w of ws from k on, 0 if there is none.
RECURSIVE IndexOf(_, _, _)
IndexOf(ws, w, k) ==
    IF k > Len(ws) THEN 0 ELSE IF ws[k] = w THEN k ELSE IndexOf(ws, w, k + 1)

\* WithNode.process_token: ws the words after the tag, k where '=' stands
WithNode_matched(C, node, ws, k) ==
    IF k = 0
    THEN CRaise(C, "TemplateSyntaxError", <<"malformed [with] tag">>)
    ELSE Let(Expression_init(SubSeq(ws, k + 1, Len(ws))), LAMBDA x :
             NodeWith(C, [node EXCEPT !.names = <<JoinWords(SubSeq(ws, 1, k - 1))>>,
                                      !.exprs = <<x.e>>],
                      x))

WithNode_process_token(C, node) ==
    WithNode_matched(C, node, Tail(node.token.content),
                     IndexOf(Tail(node.token.content), "=", 1))

----------------------------------------------------------------------------
(* The compiler: Template.__init__, Template._parse, the loader.           *)

RECURSIVE Template_init(_, _)
RECURSIVE ParseTokens(_, _, _)
RECURSIVE ParseToken(_, _)
RECURSIVE Node_init(_, _, _)
RECURSIVE config_loader(_, _)
RECURSIVE IfNode_exit_scope(_, _)

\* Node.split_children: the index of the first child of the delimiter
\* class, 0 if there is none
RECURSIVE FirstOfType(_, _, _, _)
FirstOfType(w, children, type, k) ==
    IF k > Len(children) THEN 0
    ELSE IF w.nodes[children[k]].type = type THEN k
    ELSE FirstOfType(w, children, type, k + 1)

\* Node.split_children, with the child found at k
SplitAt(children, k) ==
    IF k = 0 THEN [before |-> children, delim |-> 0, after |-> <<>>]
    ELSE [before |-> SubSeq(children, 1, k - 1), delim |-> children[k],
          after |-> SubSeq(children, k + 1, Len(children))]

Node_split_children(w, children, type) ==
    SplitAt(children, FirstOfType(w, children, type, 1))

\* The two branch nodes Node(None, before) and Node(None, after) made and
\* stored on node id.
Branches(C, id, parts) ==
    Let(Alloc(C, NewNode("node", NoToken, parts.before)), LAMBDA C1 :
    Let(Alloc(C1, NewNode("node", NoToken, parts.after)), LAMBDA C2 :
        [C2 EXCEPT !.w.nodes[id].br = <<C1.id, C2.id>>]))

\* ForNode.exit_scope
ForNode_exit_scope(C, id) ==
    Branches(C, id, Node_split_children(C.w, C.w.nodes[id].children, "empty"))

\* IfNode.exit_scope where an elif child was found: the false branch is a
\* new IfNode made of the elif token and the children after it
IfNode_elif_branch(C, id, elifs) ==
    Let(Alloc(C, NewNode("node", NoToken, elifs.before)), LAMBDA C1 :
    Then(IfNode_process_token(C1, NewNode("if", C.w.nodes[elifs.delim].token,
                                          elifs.after)), LAMBDA C2 :
    Then(IfNode_exit_scope([C2 EXCEPT !.w.nodes[C2.id].exits = @ + 1], C2.id),
         LAMBDA C3 : [C3 EXCEPT !.w.nodes[id].br = <<C1.id, C2.id>>])))

\* A variant of IfNode_exit_scope that takes no notice of elif tags.
IfNode_exit_scope_else(C, id) ==
    Branches(C, id, Node_split_children(C.w, C.w.nodes[id].children, "else"))

\* IfNode.exit_scope
IfNode_exit_scope(C, id) ==
    Let(Node_split_children(C.w, C.w.nodes[id].children, "elif"), LAMBDA elifs :
        IF elifs.delim # 0 THEN IfNode_elif_branch(C, id, elifs)
        ELSE Branches(C, id,
                      Node_split_children(C.w, C.w.nodes[id].children, "else")))

\* node.exit_scope(), as the class of the node defines it; exits counts the
\* calls made on the node
Node_exit_scope(C, id) ==
    CASE C.w.nodes[id].type = "for" ->
            ForNode_exit_scope([C EXCEPT !.w.nodes[id].exits = @ + 1], id)
      [] C.w.nodes[id].type = "if" ->
            IfNode_exit_scope([C EXCEPT !.w.nodes[id].exits = @ + 1], id)
      [] OTHER -> [C EXCEPT !.w.nodes[id].exits = @ + 1]

\* registry.setdefault(node.title, []).append(node), for a block node
RegisterBlock(w, id, registry) ==
    IF w.nodes[id].type # "block" THEN registry
    ELSE IF w.nodes[id].names[1] \in DOMAIN registry
    THEN [registry EXCEPT ![w.nodes[id].names[1]] = Append(@, id)]
    ELSE DictSet(registry, w.nodes[id].names[1], <<id>>)

\* Template._register_blocks
RECURSIVE Template_register_blocks(_, _, _)
RECURSIVE RegisterChildren(_, _, _, _)
Template_register_blocks(w, id, registry) ==
    RegisterChildren(w, w.nodes[id].children, 1, RegisterBlock(w, id, registry))
RegisterChildren(w, children, k, registry) ==
    IF k > Len(children) THEN registry
    ELSE RegisterChildren(w, children, k + 1,
                          Template_register_blocks(w, children[k], registry))

\* IncludeNode.process_token and ExtendsNode.process_token, once the
\* argument is compiled to the expression x holds
IncludeNode_with(C, node, x) ==
    IF x.err # "" THEN CRaise(C, x.err, x.msg)
    ELSE IF ~x.e.is_literal
    THEN IF node.type = "extends"
         THEN CRaise(C, "TemplateSyntaxError", <<"malformed tag", node.type>>)
         ELSE Alloc(C, [node EXCEPT !.exprs = <<x.e>>])
    ELSE Then(config_loader(C, x.e.literal), LAMBDA L :
              Alloc(L, [node EXCEPT !.children = Append(@, L.tpl.root)]))

\* IncludeNode.process_token and ExtendsNode.process_token
IncludeNode_process_token(C, node) ==
    IF Len(node.token.content) < 2
    THEN CRaise(C, "TemplateSyntaxError", <<"malformed tag", node.type>>)
    ELSE IncludeNode_with(C, node, Expression_init(Tail(node.token.content)))

\* Node.__init__: the object is made and process_token run on its token
Node_init(C, type, token) ==
    CASE type \in {"print", "eprint"} ->
            PrintNode_process_token(C, NewNode(type, token, <<>>))
      [] type = "for" -> ForNode_process_token(C, NewNode(type, token, <<>>))
      [] type = "if" -> IfNode_process_token(C, NewNode(type, token, <<>>))
      [] type = "cycle" -> CycleNode_process_token(C, NewNode(type, token, <<>>))
      [] type \in {"include", "extends"} ->
            IncludeNode_process_token(C, NewNode(type, token, <<>>))
      [] type = "block" -> BlockNode_process_token(C, NewNode(type, token, <<>>))
      [] type = "with" -> WithNode_process_token(C, NewNode(type, token, <<>>))
      [] OTHER -> Alloc(C, NewNode(type, token, <<>>))

\* loaders.DictLoader.__call__, installed as config.loader
config_loader(C, name) ==
    IF name.t = "dict" THEN CRaise(C, "TypeError", <<"unhashable">>)
    ELSE IF name.t = "str" /\ name.s \in DOMAIN C.w.cache
    THEN [C EXCEPT !.tpl = C.w.cache[name.s]]
    ELSE IF name.t = "str" /\ name.s \in DOMAIN C.w.strings
    THEN Then(Template_init(C, C.w.strings[name.s]), LAMBDA N :
              [N EXCEPT !.w.cache = DictSet(@, name.s, N.tpl)])
    ELSE CRaise(C, "TemplateNotFound", <<>>)

\* A variant of ParseToken_append that pushes every node made onto the stack
\* of open nodes.
ParseToken_append_all(N, top) ==
    [N EXCEPT !.w.nodes[top].children = Append(@, N.id),
              !.stack = Append(@, N.id),
              !.expecting = IF N.w.nodes[N.id].end_tag # ""
                            THEN Append(@, N.w.nodes[N.id].end_tag) ELSE @]

\* Template._parse, the end of a turn of its loop: the node N made is
\* appended to the children of the top of the stack and, if its class has
\* an end tag, pushed
ParseToken_append(N, top) ==
    [N EXCEPT !.w.nodes[top].children = Append(@, N.id),
              !.stack = IF N.w.nodes[N.id].end_tag # ""
                        THEN Append(@, N.id) ELSE @,
              !.expecting = IF N.w.nodes[N.id].end_tag # ""
                            THEN Append(@, N.w.nodes[N.id].end_tag) ELSE @]

\* A variant of Template_parse_endtag that takes any end tag as the end of
\* the innermost open block.
Template_parse_endtag_any(C, token) ==
    IF C.expecting = <<>> THEN C
    ELSE Then(Node_exit_scope(C, Last(C.stack)), LAMBDA E :
              [E EXCEPT !.stack = Front(@), !.expecting = Front(@)])

\* A variant of Template_parse_endtag that pops the node without calling its
\* exit_scope.
Template_parse_endtag_unsealed(C, token) ==
    IF C.expecting = <<>>
    THEN CRaise(C, "NestingError", <<"not expecting", token.tag>>)
    ELSE IF token.tag = Last(C.expecting)
    THEN [C EXCEPT !.stack = Front(@), !.expecting = Front(@)]
    ELSE CRaise(C, "NestingError",
                <<"expecting", Last(C.expecting), "found", token.tag>>)

\* Template._parse, a token whose tag is in nodemap['endtags']
Template_parse_endtag(C, token) ==
    IF C.expecting = <<>>
    THEN CRaise(C, "NestingError", <<"not expecting", token.tag>>)
    ELSE IF token.tag = Last(C.expecting)
    THEN Then(Node_exit_scope(C, Last(C.stack)), LAMBDA E :
              [E EXCEPT !.stack = Front(@), !.expecting = Front(@)])
    ELSE CRaise(C, "NestingError",
                <<"expecting", Last(C.expecting), "found", token.tag>>)

\* One turn of the loop of Template._parse.  nodemap['endtags'] is a list:
\* called with the token it raises TypeError.
ParseToken(C, token) ==
    IF token.type # "syntax"
    THEN Then(Node_init(C, token.type, token), LAMBDA N :
              ParseToken_append(N, Last(C.stack)))
    ELSE IF InNodemap(token.tag)
    THEN IF token.tag = "endtags"
         THEN CRaise(C, "TypeError", <<"'list' object is not callable">>)
         ELSE Then(Node_init(C, token.tag, token), LAMBDA N :
                   ParseToken_append(N, Last(C.stack)))
    ELSE IF token.tag \in nodemap_endtags
    THEN Template_parse_endtag(C, token)
    ELSE CRaise(C, "InvalidTag", <<token.tag>>)

\* Template._parse before its loop: the root node and the two stacks
Template_parse_start(C) ==
    [Alloc(C, NewNode("root", NoToken, <<>>)) EXCEPT
        !.stack = <<Len(C.w.nodes) + 1>>, !.expecting = <<>>]

\* A variant of Template_parse_finish that does not look at expecting.
Template_parse_finish_unchecked(C) ==
    [C EXCEPT !.tpl = [root |-> C.stack[1],
                       registry |-> Template_register_blocks(
                                       C.w, C.stack[1], EmptyDict)]]

\* Template._parse after its loop, then Template._register_blocks
Template_parse_finish(C) ==
    IF C.expecting # <<>>
    THEN CRaise(C, "NestingError", <<"expecting", Last(C.expecting)>>)
    ELSE [C EXCEPT !.stack = Front(@),
                   !.tpl = [root |-> Last(C.stack),
                            registry |-> Template_register_blocks(
                                            C.w, Last(C.stack), EmptyDict)]]

ParseTokens(C, toks, k) ==
    IF C.err # "" THEN C
    ELSE IF k > Len(toks) THEN Template_parse_finish(C)
    ELSE ParseTokens(ParseToken(C, toks[k]), toks, k + 1)

\* Template.__init__ called from the loader: the caller's stacks are kept
Template_init(C, toks) ==
    [ParseTokens(Template_parse_start(C), toks, 1) EXCEPT
        !.stack = C.stack, !.expecting = C.expecting]

----------------------------------------------------------------------------
(* Rendering.                                                              *)

RECURSIVE Node_render(_, _)
RECURSIVE RenderAll(_, _, _, _)
RECURSIVE Expression_eval(_, _)
RECURSIVE Call(_, _, _)
RECURSIVE BlockNode_render_block(_, _, _)
RECURSIVE ForLoop(_, _, _, _, _)
RECURSIVE OrChain(_, _, _)
RECURSIVE EvalGroups(_, _, _, _, _)

\* a == b in Python
PyEq(a, b) ==
    IF a.t \in {"int", "bool"} /\ b.t \in {"int", "bool"} THEN a.n = b.n
    ELSE IF a.t = "undefined" \/ b.t = "undefined" THEN FALSE
    ELSE a = b

\* a in b: ok is FALSE where Python raises
Contains(a, b) ==
    CASE b.t \in {"tuple", "list"} ->
            [ok |-> TRUE, r |-> \E i \in 1..Len(b.xs) : PyEq(a, b.xs[i])]
      [] b.t = "dict" ->
            [ok |-> a.t # "dict", r |-> a.t = "str" /\ a.s \in DOMAIN b.d]
      [] b.t = "undefined" -> [ok |-> TRUE, r |-> FALSE]
      [] b.t = "str" /\ Len(b.s) <= 1 ->
            [ok |-> a.t = "str", r |-> a.t = "str" /\ (a.s = "" \/ a.s = b.s)]
      [] b.t \in {"int", "bool", "none"} -> [ok |-> FALSE, r |-> FALSE]

\* IfNode.operators[op](a, b): FALSE where the operator raises, as
\* IfNode.eval_condition makes of the exception
Compare(op, a, b) ==
    CASE op = "==" -> PyEq(a, b)
      [] op = "!=" -> ~PyEq(a, b)
      [] op \in {"<", ">", "<=", ">="}
            /\ a.t \in {"int", "bool"} /\ b.t \in {"int", "bool"} ->
            (CASE op = "<" -> a.n < b.n
               [] op = ">" -> a.n > b.n
               [] op = "<=" -> a.n <= b.n
               [] op = ">=" -> a.n >= b.n)
      [] op \in {"<", ">", "<=", ">="}
            /\ ~(a.t \in {"int", "bool"} /\ b.t \in {"int", "bool"})
            /\ (a.t # "str" \/ b.t # "str") -> FALSE
      [] op = "in" -> Contains(a, b).ok /\ Contains(a, b).r
      [] op = "not in" -> Contains(a, b).ok /\ ~Contains(a, b).r

\* str.strip(), on the strings of the model with blanks at their ends
StripTable == [s \in {" ", " a ", " a", "a "} |-> IF s = " " THEN "" ELSE "a"]
Strip(s) == IF s \in DOMAIN StripTable THEN StripTable[s] ELSE s

\* ''.join(child.render(context) for child in children), from child k on
RenderAll(T, children, k, acc) ==
    IF T.err # "" THEN T
    ELSE IF k > Len(children) THEN Output(T, acc)
    ELSE Let(Node_render(T, children[k]), LAMBDA R :
             RenderAll(R, children, k + 1, acc \o R.o))

\* A bound method of the Context called with args: ok is FALSE where the
\* call raises.
ContextCall(T, name, args) ==
    CASE name = "pop" ->
            IF args = <<>> /\ T.c.stack # <<>>
            THEN [ok |-> TRUE, T |-> Return(Context_pop(T), VNone)]
            ELSE [ok |-> FALSE, T |-> T]
      [] name = "push" ->
            IF args = <<>> \/ (Len(args) = 1 /\ ~Truth(args[1]))
            THEN [ok |-> TRUE, T |-> Return(Context_push(T), VNone)]
            ELSE [ok |-> FALSE, T |-> T]
      [] name = "update" ->
            IF Len(args) = 1 /\ args[1].t = "dict" /\ T.c.stack # <<>>
            THEN [ok |-> TRUE, T |-> Return(Context_update(T, args[1].d), VNone)]
            ELSE [ok |-> FALSE, T |-> T]
      [] name = "defined" ->
            IF Len(args) = 1 /\ args[1].t = "str"
            THEN [ok |-> TRUE,
                  T |-> Return(T, VBool(Context_defined(T, args[1].s)))]
            ELSE [ok |-> FALSE, T |-> T]
      [] name = "resolve" ->
            IF Len(args) = 1 /\ args[1].t = "str"
            THEN [ok |-> TRUE, T |-> Return(T, Context_resolve(T, args[1].s))]
            ELSE [ok |-> FALSE, T |-> T]
      [] name = "get" ->
            IF Len(args) \in {1, 2} /\ args[1].t = "str"
            THEN [ok |-> TRUE,
                  T |-> Return(T, Context_get(T, args[1].s,
                                   IF Len(args) = 2 THEN args[2] ELSE VNone))]
            ELSE [ok |-> FALSE, T |-> T]

\* obj(*args): the exception, if any, is left in T.err
Call(T, obj, args) ==
    CASE obj.t = "method" ->
            Let(ContextCall(T, obj.s, args), LAMBDA r :
                IF r.ok THEN r.T ELSE Raise(T, "TypeError", <<obj.s>>))
      [] obj.t = "super" ->
            IF args # <<>> THEN Raise(T, "TypeError", <<"super">>)
            ELSE Then(BlockNode_render_block(T, obj.n, obj.xs[1]), LAMBDA R :
                      Return(R, VStr(R.o)))
      [] obj.t = "builtin" -> Raise(T, "TypeError", <<obj.s>>)

\* Expression._resolve_variable, with the object the variable resolved to
CallResolved(T, e, obj) ==
    IF ~Callable(obj) THEN Expression_apply_filters(T, e.filters, obj, e.expr)
    ELSE Let(Call(T, obj, e.varargs), LAMBDA R :
             IF R.err # "" THEN Raise(R, "CallError", <<e.varstr>>)
             ELSE Expression_apply_filters(R, e.filters, R.v, e.expr))

\* Expression._resolve_variable
Expression_resolve_variable(T, e) ==
    CallResolved(T, e, Context_resolve(T, e.varstr))

\* Expression.eval
Expression_eval(T, e) ==
    IF e.is_literal THEN Return(T, e.literal)
    ELSE Expression_resolve_variable(T, e)

\* PrintNode.render, the loop over self.exprs
OrChain(T, exprs, k) ==
    Let(Expression_eval(T, exprs[k]), LAMBDA R :
        IF R.err # "" \/ Truth(R.v) \/ k = Len(exprs) THEN R
        ELSE OrChain(R, exprs, k + 1))

\* A variant of PrintNode_content with the alternatives of the ternary form
\* taken the other way round.
PrintNode_content_swapped(T, node) ==
    IF ~node.flag THEN OrChain(T, node.exprs, 1)
    ELSE Then(Expression_eval(T, node.exprs[1]), LAMBDA test :
              IF Truth(test.v) THEN Expression_eval(test, node.exprs[3])
              ELSE Expression_eval(test, node.exprs[2]))

\* PrintNode.render, the value of content
PrintNode_content(T, node) ==
    IF ~node.flag THEN OrChain(T, node.exprs, 1)
    ELSE Then(Expression_eval(T, node.exprs[1]), LAMBDA test :
              IF Truth(test.v) THEN Expression_eval(test, node.exprs[2])
              ELSE Expression_eval(test, node.exprs[3]))

\* PrintNode.render
PrintNode_render(T, node) ==
    Then(PrintNode_content(T, node), LAMBDA R :
         Output(R, IF node.type = "eprint" THEN Escape(Str(R.v, R.c.stash))
                   ELSE Str(R.v, R.c.stash)))

\* dict(zip(self.loopvars, item)), for an iterable item
RECURSIVE Zip(_, _)
Zip(names, xs) ==
    IF names = <<>> \/ xs = <<>> THEN EmptyDict
    ELSE DictUpdate(DictSet(EmptyDict, names[1], xs[1]), Zip(Tail(names), Tail(xs)))

\* The dictionary ForNode.render binds to 'loop'.
LoopRecord(index, length, parent) ==
    VDict([index |-> VInt(index), count |-> VInt(index + 1),
           length |-> VInt(length),
           is_first |-> VBool(index = 0), first |-> VBool(index = 0),
           is_last |-> VBool(index = length - 1), last |-> VBool(index = length - 1),
           parent |-> parent])

\* ForNode.render, the loop variables bound to item in the scope pushed
ForLoop_bind(P, node, item) ==
    IF Len(node.names) > 1
    THEN IF Iterable(item)
         THEN Context_update(P, Zip(node.names, Items(item)))
         ELSE Raise(P, "UnpackingError",
                    <<Repr(item), JoinWords(node.token.content)>>)
    ELSE Context_setitem(P, node.names[1], item)

\* ForNode.render, the loop over enumerate(items), from item k on
ForLoop(T, node, items, k, acc) ==
    IF T.err # "" THEN T
    ELSE IF k > Len(items) THEN Output(T, acc)
    ELSE Then(ForLoop_bind(Context_push(T), node, items[k]), LAMBDA B :
         Then(Node_render(Context_setitem(B, "loop",
                              LoopRecord(k - 1, Len(items),
                                         Context_get(B, "loop", VNone))),
                          node.br[1]), LAMBDA R :
              ForLoop(Context_pop(R), node, items, k + 1, acc \o R.o)))

\* ForNode.render
ForNode_render(T, node) ==
    Then(Expression_eval(T, node.exprs[1]), LAMBDA E :
         IF Truth(E.v) /\ Iterable(E.v)
         THEN ForLoop(E, node, Items(E.v), 1, "")
         ELSE Node_render(E, node.br[2]))

\* IfNode.eval_condition, its end: an exception raised is taken as a false
\* result, then the negation applied
Caught(T, result, negated) ==
    [T |-> [T EXCEPT !.err = "", !.msg = <<>>],
     result |-> IF negated THEN ~(T.err = "" /\ result)
                ELSE T.err = "" /\ result]

\* IfNode.eval_condition: the state after the evaluation and the result
IfNode_eval_condition(T, cond) ==
    Let(Expression_eval(T, cond.lhs), LAMBDA L :
        IF L.err # "" \/ cond.op = ""
        THEN Caught(L, Truth(L.v), cond.negated)
        ELSE Let(Expression_eval(L, cond.rhs), LAMBDA R :
                 Caught(R, Compare(cond.op, L.v, R.v), cond.negated)))

\* IfNode.render, the two loops: condition j of group i is the next one,
\* is_true the value of the variable of that name
EvalGroups(T, groups, i, j, is_true) ==
    IF i > Len(groups) THEN [T |-> T, result |-> is_true]
    ELSE IF j > Len(groups[i])
    THEN IF is_true THEN [T |-> T, result |-> TRUE]
         ELSE EvalGroups(T, groups, i + 1, 1, is_true)
    ELSE Let(IfNode_eval_condition(T, groups[i][j]), LAMBDA c :
             IF c.result THEN EvalGroups(c.T, groups, i, j + 1, TRUE)
             ELSE EvalGroups(c.T, groups, i + 1, 1, FALSE))

\* IfNode.render
IfNode_render(T, node) ==
    Let(EvalGroups(T, node.groups, 1, 1, FALSE), LAMBDA g :
        IF g.result THEN Node_render(g.T, node.br[1])
        ELSE Node_render(g.T, node.br[2]))

\* str(next(iterator, '')) on the iterator the stash holds for the node:
\* its items and the index of the one next() returns next
CycleNode_next(T, id) ==
    IF T.c.stash[id].items = <<>> THEN Output(T, "")
    ELSE Output([T EXCEPT !.c.stash[id].next = (@ % Len(T.c.stash[id].items)) + 1],
                Str(T.c.stash[id].items[T.c.stash[id].next], T.c.stash))

\* CycleNode.render with the position kept under one key for every node.
CycleNode_render_shared(T, id) ==
    IF 0 \in DOMAIN T.c.stash THEN CycleNode_next(T, 0)
    ELSE Then(Expression_eval(T, T.w.nodes[id].exprs[1]), LAMBDA E :
              CycleNode_next(
                  [E EXCEPT !.c.stash =
                      DictSet(@, 0, [items |-> IF Iterable(E.v) THEN Items(E.v)
                                               ELSE <<>>,
                                     next |-> 1])],
                  0))

\* CycleNode.render
CycleNode_render(T, id) ==
    IF id \in DOMAIN T.c.stash THEN CycleNode_next(T, id)
    ELSE Then(Expression_eval(T, T.w.nodes[id].exprs[1]), LAMBDA E :
              CycleNode_next(
                  [E EXCEPT !.c.stash =
                      DictSet(@, id, [items |-> IF Iterable(E.v) THEN Items(E.v)
                                                ELSE <<>>,
                                      next |-> 1])],
                  id))

\* IncludeNode.render
IncludeNode_render(T, node) ==
    IF node.children # <<>> THEN RenderAll(T, node.children, 1, "")
    ELSE Then(Expression_eval(T, node.exprs[1]), LAMBDA E :
         Let(config_loader(Compile(E.w), E.v), LAMBDA L :
             IF L.err # "" THEN Raise([E EXCEPT !.w = L.w], L.err, L.msg)
             ELSE Node_render([E EXCEPT !.w = L.w], L.tpl.root)))

\* BlockNode.render_block: key names the block_list the call works on;
\* calls records the block whose body made the call and the block rendered
BlockNode_render_block(T, self, key) ==
    IF T.c.lists[key] = <<>>
    THEN Output([T EXCEPT !.c.calls = Append(@, [from |-> T.c.cur, block |-> 0])],
                "")
    ELSE Then(RenderAll(
                  Context_setitem(
                      Context_push(
                          [T EXCEPT !.c.calls =
                                        Append(@, [from |-> T.c.cur,
                                                   block |-> Last(T.c.lists[key])]),
                                    !.c.lists[key] = Front(@),
                                    !.c.cur = Last(T.c.lists[key])]),
                      "super", VSuper(self, key)),
                  T.w.nodes[Last(T.c.lists[key])].children, 1, ""),
              LAMBDA R : Output([Context_pop(R) EXCEPT !.c.cur = T.c.cur], R.o))

\* A variant of BlockNode_render where every block renders its own content
\* in place.
BlockNode_render_own(T, id) ==
    RenderAll(T, T.w.nodes[id].children, 1, "")

\* A variant of BlockNode_render that hands the list of the registry itself
\* to render_block, which pops it.
BlockNode_render_inplace(T, id) ==
    LET title == T.w.nodes[id].names[1]
        registry == T.c.template.registry
    IN IF title \notin DOMAIN registry
       THEN Raise([T EXCEPT !.c.rendered = @ \cup {id}], "KeyError", <<title>>)
       ELSE IF registry[title][1] = id
       THEN BlockNode_render_block(
                [T EXCEPT !.c.lists = Append(@, registry[title]),
                          !.c.template.registry[title] = Front(@),
                          !.c.rendered = @ \cup {id}],
                id, Len(T.c.lists) + 1)
       ELSE Output([T EXCEPT !.c.rendered = @ \cup {id}], "")

\* BlockNode.render: block_list[:] is a new list, kept in lists
BlockNode_render(T, id) ==
    LET title == T.w.nodes[id].names[1]
        registry == T.c.template.registry
    IN IF title \notin DOMAIN registry
       THEN Raise([T EXCEPT !.c.rendered = @ \cup {id}], "KeyError", <<title>>)
       ELSE IF registry[title][1] = id
       THEN BlockNode_render_block(
                [T EXCEPT !.c.lists = Append(@, registry[title]),
                          !.c.rendered = @ \cup {id}],
                id, Len(T.c.lists) + 1)
       ELSE Output([T EXCEPT !.c.rendered = @ \cup {id}], "")

\* WithNode.render
WithNode_render(T, node) ==
    Then(Expression_eval(Context_push(T), node.exprs[1]), LAMBDA E :
    Then(RenderAll(Context_setitem(E, node.names[1], E.v), node.children, 1, ""),
         LAMBDA R : Output(Context_pop(R), R.o)))

\* SpacelessNode.render and TrimNode.render
TrimNode_render(T, node) ==
    Then(RenderAll(T, node.children, 1, ""), LAMBDA R : Output(R, Strip(R.o)))

\* node.render(context), as the class of the node defines it
Node_render(T, id) ==
    IF T.err # "" THEN T
    ELSE CASE T.w.nodes[id].type = "text" ->
                Output(T, JoinWords(T.w.nodes[id].token.content))
           [] T.w.nodes[id].type \in {"print", "eprint"} ->
                PrintNode_render(T, T.w.nodes[id])
           [] T.w.nodes[id].type = "for" -> ForNode_render(T, T.w.nodes[id])
           [] T.w.nodes[id].type = "if" -> IfNode_render(T, T.w.nodes[id])
           [] T.w.nodes[id].type = "cycle" -> CycleNode_render(T, id)
           [] T.w.nodes[id].type = "include" -> IncludeNode_render(T, T.w.nodes[id])
           [] T.w.nodes[id].type = "block" -> BlockNode_render(T, id)
           [] T.w.nodes[id].type = "with" -> WithNode_render(T, T.w.nodes[id])
           [] T.w.nodes[id].type \in {"trim", "spaceless"} ->
                TrimNode_render(T, T.w.nodes[id])
           [] OTHER -> RenderAll(T, T.w.nodes[id].children, 1, "")

----------------------------------------------------------------------------
(* The lexer, on a source given as its sequence of characters.             *)

\* config.delimiters
config_delimiters ==
    [syntax_start |-> <<"{", "%">>, syntax_end |-> <<"%", "}">>,
     eprint_start |-> <<"{", "{", "{">>, eprint_end |-> <<"}", "}", "}">>,
     print_start |-> <<"{", "{">>, print_end |-> <<"}", "}">>,
     comment_start |-> <<"{", "#">>, comment_end |-> <<"#", "}">>]

\* cs[i:].startswith(d)
StartsWith(cs, i, d) ==
    i + Len(d) - 1 <= Len(cs) /\ SubSeq(cs, i, i + Len(d) - 1) = d

\* The least j >= from where d stands in cs, 0 if there is none.
RECURSIVE Find(_, _, _)
Find(cs, d, j) ==
    IF j + Len(d) - 1 > Len(cs) THEN 0
    ELSE IF StartsWith(cs, j, d) THEN j
    ELSE Find(cs, d, j + 1)

\* start.*?end matched at i: the index of the last character matched, 0 for
\* no match
TagMatch(cs, i, kind) ==
    LET start == config_delimiters[kind \o "_start"]
        end == config_delimiters[kind \o "_end"]
        j == Find(cs, end, i + Len(start))
    IN IF StartsWith(cs, i, start) /\ j # 0 THEN j + Len(end) - 1 ELSE 0

\* Lexer.regex matched at i: the alternatives are tried in the order of the
\* pattern, the first that matches wins
MatchAt(cs, i) ==
    IF TagMatch(cs, i, "syntax") # 0 THEN TagMatch(cs, i, "syntax")
    ELSE IF TagMatch(cs, i, "eprint") # 0 THEN TagMatch(cs, i, "eprint")
    ELSE IF TagMatch(cs, i, "print") # 0 THEN TagMatch(cs, i, "print")
    ELSE TagMatch(cs, i, "comment")

\* self.regex.split(self.string): text, match, text, ... match, text
RECURSIVE Lexer_split(_, _, _)
Lexer_split(cs, i, from) ==
    IF i > Len(cs) THEN <<SubSeq(cs, from, Len(cs))>>
    ELSE IF MatchAt(cs, i) = 0 THEN Lexer_split(cs, i + 1, from)
    ELSE <<SubSeq(cs, from, i - 1), SubSeq(cs, i, MatchAt(cs, i))>>
            \o Lexer_split(cs, MatchAt(cs, i) + 1, MatchAt(cs, i) + 1)

\* str.strip() on characters
RECURSIVE StripChars(_)
StripChars(cs) ==
    IF cs = <<>> THEN cs
    ELSE IF cs[1] = " " THEN StripChars(Tail(cs))
    ELSE IF Last(cs) = " " THEN StripChars(Front(cs))
    ELSE cs

\* Lexer._strip
Lexer_strip(fragment, kind) ==
    StripChars(SubSeq(fragment,
                      Len(config_delimiters[kind \o "_start"]) + 1,
                      Len(fragment) - Len(config_delimiters[kind \o "_end"])))

\* The words of a tag body: the characters between blanks, joined.
Words(cs) ==
    LET pieces == SelectSeq(SplitOn(cs, {" "}, FALSE, <<>>), LAMBDA p : p # <<>>)
    IN [k \in 1..Len(pieces) |-> Join(pieces[k])]

\* Lexer._get_token
Lexer_get_token(fragment) ==
    IF StartsWith(fragment, 1, config_delimiters.eprint_start)
    THEN EPrintTok(Words(Lexer_strip(fragment, "eprint")))
    ELSE IF StartsWith(fragment, 1, config_delimiters.print_start)
    THEN PrintTok(Words(Lexer_strip(fragment, "print")))
    ELSE IF StartsWith(fragment, 1, config_delimiters.syntax_start)
    THEN LET ws == Words(Lexer_strip(fragment, "syntax"))
         IN Token("syntax", IF ws = <<>> THEN "" ELSE ws[1], ws)
    ELSE IF StartsWith(fragment, 1, config_delimiters.comment_start)
    THEN Token("comment", "", <<>>)
    ELSE TextTok(Join(fragment))

\* Lexer.__iter__
Lexer_iter(cs) ==
    LET fragments == SelectSeq(Lexer_split(cs, 1, 1), LAMBDA f : f # <<>>)
        toks == [k \in 1..Len(fragments) |-> Lexer_get_token(fragments[k])]
    IN SelectSeq(toks, LAMBDA t : t.content # <<>>)

----------------------------------------------------------------------------
(* The state machine.                                                      *)

\* The templates the loader serves (loaders.DictLoader.strings), as the
\* token streams of their sources.
LoaderStrings ==
    [base |-> <<TextTok("["), SyntaxTok(<<"block", "t">>), TextTok("G"),
                SyntaxTok(<<"endblock">>), TextTok("]")>>,
     mid |-> <<SyntaxTok(<<"extends", "'base'">>), SyntaxTok(<<"block", "t">>),
               TextTok("P"), PrintTok(<<"super">>), SyntaxTok(<<"endblock">>)>>,
     mid2 |-> <<SyntaxTok(<<"extends", "'base'">>), SyntaxTok(<<"block", "t">>),
                TextTok("P"), SyntaxTok(<<"endblock">>)>>]

\* The state the engine is in before any template is compiled.
World0 == [nodes |-> <<>>, cache |-> EmptyDict, builtins |-> config_builtins,
           strings |-> LoaderStrings]

\* Template.__init__, first step: the lexer object is made and read
Lex ==
    /\ cstate = "lex"
    /\ tokens' = Lexer_iter(chars)
    /\ cstate' = "new"
    /\ UNCHANGED <<chars, pos, stack, expecting, cmsg, world, tmpl, ctx, rpc,
                   rpos, out, rdata>>

\* The compile goes on in the state C a step of Template._parse left, or
\* stops with the exception C holds.
Compiled(C, next) ==
    /\ world' = C.w
    /\ stack' = C.stack
    /\ expecting' = C.expecting
    /\ tmpl' = C.tpl
    /\ cstate' = IF C.err # "" THEN C.err ELSE next
    /\ cmsg' = C.msg

\* The state of the compile in progress.
Compiling == [Compile(world) EXCEPT !.stack = stack, !.expecting = expecting]

\* Template._parse up to its loop
ParseStart ==
    /\ cstate = "new"
    /\ Compiled(Template_parse_start(Compile(world)), "parse")
    /\ pos' = 1
    /\ UNCHANGED <<chars, tokens, ctx, rpc, rpos, out, rdata>>

\* One turn of the loop of Template._parse, on the token at pos
ParseStep ==
    /\ cstate = "parse"
    /\ pos <= Len(tokens)
    /\ Compiled(ParseToken(Compiling, tokens[pos]), "parse")
    /\ pos' = pos + 1
    /\ UNCHANGED <<chars, tokens, ctx, rpc, rpos, out, rdata>>

\* Template._parse after its loop and the rest of Template.__init__
ParseFinish ==
    /\ cstate = "parse"
    /\ pos > Len(tokens)
    /\ Compiled(Template_parse_finish(Compiling), "ok")
    /\ UNCHANGED <<chars, tokens, pos, ctx, rpc, rpos, out, rdata>>

\* A variant of RenderStart where the stash is the one of another render
\* call rather than a new dictionary.
RenderStart_shared(r) ==
    /\ cstate = "ok"
    /\ rpc[r] = "idle"
    /\ ctx' = [ctx EXCEPT ![r] =
                  [Context_init(rdata[r], tmpl) EXCEPT
                      !.stash = ctx[IF r = 1 THEN 2 ELSE 1].stash]]
    /\ rpc' = [rpc EXCEPT ![r] = "run"]
    /\ rpos' = [rpos EXCEPT ![r] = 1]
    /\ UNCHANGED <<chars, tokens, pos, stack, expecting, cstate, cmsg, world,
                   tmpl, out, rdata>>

\* Template.render: the Context is made
RenderStart(r) ==
    /\ cstate = "ok"
    /\ rpc[r] = "idle"
    /\ ctx' = [ctx EXCEPT ![r] = Context_init(rdata[r], tmpl)]
    /\ rpc' = [rpc EXCEPT ![r] = "run"]
    /\ rpos' = [rpos EXCEPT ![r] = 1]
    /\ UNCHANGED <<chars, tokens, pos, stack, expecting, cstate, cmsg, world,
                   tmpl, out, rdata>>

\* Template.render called as render(**m), m the data of the call: Python
\* binds the named arguments to the parameters of def render(self, *pargs,
\* **kwargs) and raises TypeError for an entry named 'self', which has its
\* value already; the other entries make up kwargs, the data of the Context.
RenderStartNamed(r) ==
    /\ cstate = "ok"
    /\ rpc[r] = "named"
    /\ IF "self" \in DOMAIN rdata[r]
       THEN /\ rpc' = [rpc EXCEPT ![r] = "TypeError"]
            /\ UNCHANGED <<ctx, rpos>>
       ELSE /\ ctx' = [ctx EXCEPT ![r] = Context_init(rdata[r], tmpl)]
            /\ rpc' = [rpc EXCEPT ![r] = "run"]
            /\ rpos' = [rpos EXCEPT ![r] = 1]
    /\ UNCHANGED <<chars, tokens, pos, stack, expecting, cstate, cmsg, world,
                   tmpl, out, rdata>>

\* The render call r goes on in the state R the rendering of a child of the
\* root left, or stops with the exception R holds; the call returns when
\* no child is left.
Rendered(r, R, last) ==
    /\ world' = R.w
    /\ ctx' = [ctx EXCEPT ![r] = R.c]
    /\ rpc' = [rpc EXCEPT ![r] = IF R.err # "" THEN R.err
                                 ELSE IF last THEN "done" ELSE "run"]
    /\ out' = [out EXCEPT ![r] = @ \o R.o]

\* RootNode.render: the next child of the root is rendered and joined to
\* the output, or the joined string returned
RenderStep(r) ==
    /\ rpc[r] = "run"
    /\ Rendered(r,
                IF rpos[r] > Len(world.nodes[tmpl.root].children)
                THEN Thread(world, ctx[r])
                ELSE Node_render(Thread(world, ctx[r]),
                                 world.nodes[tmpl.root].children[rpos[r]]),
                rpos[r] > Len(world.nodes[tmpl.root].children))
    /\ rpos' = [rpos EXCEPT ![r] = @ + 1]
    /\ UNCHANGED <<chars, tokens, pos, stack, expecting, cstate, cmsg, tmpl,
                   rdata>>

\* What every initial state shares.
InitCommon ==
    /\ pos = 0
    /\ stack = <<>>
    /\ expecting = <<>>
    /\ cmsg = <<>>
    /\ world = World0
    /\ tmpl = NoTemplate
    /\ ctx = [r \in Renders |-> NoContext]
    /\ rpos = [r \in Renders |-> 0]
    /\ out = [r \in Renders |-> ""]

\* The characters of the sources the lexer is run on.
Alphabet == {"{", "}", "%", "#", "a", " "}

SeqsUpTo(S, n) == UNION {[1..k -> S] : k \in 0..n}

\* The data dictionaries callers pass to render.
DataSet ==
    {EmptyDict,
     [foo |-> VStr("ham"), x |-> VTuple(<<VInt(1), VInt(2)>>)],
     [x |-> VStr("a"), a |-> VInt(0), stash |-> VNone]}

\* {{ name }}
PrintOf(name) == <<PrintTok(<<name>>)>>

\* {{ test ?? 'yes' :: 'no' }}
TernaryOf(test) == <<PrintTok(test \o <<"??", "'yes'", "::", "'no'">>)>>

\* {% extends 'parent' %} before ... {% block title %} body {% endblock %} after
ChildOf(parent, before, title, body, after) ==
    <<SyntaxTok(<<"extends", parent>>)>> \o before
        \o <<SyntaxTok(<<"block", title>>)>> \o body \o <<SyntaxTok(<<"endblock">>)>>
        \o after

Super == PrintTok(<<"super">>)
Cycle(items) == SyntaxTok(<<"cycle", items>>)

PrintTemplates ==
    {PrintOf(n) : n \in {"foo", "x", "a", "z", "stash", "pop", "get"}}

TernaryTemplates ==
    {TernaryOf(t) : t \in {<<"1", ">", "0">>, <<"0", ">", "1">>, <<"x">>,
                           <<"a">>, <<"1">>, <<"0">>}}

ExtendsTemplates ==
    {ChildOf("'base'", <<>>, "t", <<TextTok("C")>>, <<>>),
     ChildOf("'base'", <<TextTok("x")>>, "t", <<TextTok("C")>>, <<TextTok("y")>>),
     ChildOf("'base'", <<>>, "t", <<PrintTok(<<"foo">>)>>, <<>>),
     ChildOf("'base'", <<>>, "u", <<TextTok("C")>>, <<>>),
     ChildOf("'base'", <<>>, "t", <<TextTok("C"), Super>>, <<>>),
     ChildOf("'base'", <<>>, "t", <<TextTok("C"), Super, Super>>, <<>>),
     ChildOf("'mid2'", <<>>, "t", <<Super, Super>>, <<>>),
     ChildOf("'mid'", <<>>, "t", <<TextTok("C"), Super, TextTok("|"), Super>>, <<>>),
     ChildOf("'mid'", <<>>, "t", <<TextTok("C"), Super>>, <<>>),
     <<SyntaxTok(<<"block", "t">>), TextTok("C"), SyntaxTok(<<"endblock">>),
       SyntaxTok(<<"extends", "'base'">>)>>}

CycleTemplates ==
    {<<Cycle("'a', 'b'"), Cycle("'a', 'b'")>>,
     <<Cycle("'a', 'b'"), TextTok("-"), SyntaxTok(<<"for", "i", "in", "1, 2, 3">>),
       Cycle("'a', 'b'"), SyntaxTok(<<"endfor">>)>>,
     <<SyntaxTok(<<"for", "i", "in", "x">>), Cycle("1, 2"),
       SyntaxTok(<<"endfor">>), Cycle("1, 2")>>}

ContextTemplates ==
    {<<PrintTok(<<"z">>), PrintTok(<<"pop">>),
       PrintTok(<<"update", "(", "{'z': 'Z'}", ")">>)>>,
     <<PrintTok(<<"z">>), PrintTok(<<"update", "(", "{'z': 'Z'}", ")">>),
       PrintTok(<<"z">>)>>,
     <<SyntaxTok(<<"with", "z", "=", "x">>), PrintTok(<<"z">>),
       SyntaxTok(<<"endwith">>), PrintTok(<<"z">>)>>}

\* The templates the render calls are checked on.
Catalogue ==
    PrintTemplates \cup TernaryTemplates \cup ExtendsTemplates
        \cup CycleTemplates \cup ContextTemplates

\* The tokens the compiler is checked on: every stream of them.
ParserTokens ==
    {TextTok("a"), PrintTok(<<"x">>),
     SyntaxTok(<<"if", "x">>), SyntaxTok(<<"elif", "x">>), SyntaxTok(<<"else">>),
     SyntaxTok(<<"endif">>),
     SyntaxTok(<<"for", "i", "in", "x">>), SyntaxTok(<<"endfor">>),
     SyntaxTok(<<"block", "t">>), SyntaxTok(<<"endblock">>),
     SyntaxTok(<<"foo">>), SyntaxTok(<<"endtags">>)}

\* A source is handed to Template(); one render call is made.
InitLexer ==
    /\ InitCommon
    /\ chars \in SeqsUpTo(Alphabet, MaxChars)
    /\ tokens = <<>>
    /\ cstate = "lex"
    /\ rdata \in {[r \in Renders |-> d] : d \in {EmptyDict, [a |-> VStr("x")]}}
    /\ rpc = [r \in Renders |-> IF r = 1 THEN "idle" ELSE "off"]

\* The lexer has yielded a token stream; no render call is made.
InitParser ==
    /\ InitCommon
    /\ chars = <<>>
    /\ tokens \in SeqsUpTo(ParserTokens, MaxTokens)
    /\ cstate = "new"
    /\ rdata = [r \in Renders |-> EmptyDict]
    /\ rpc = [r \in Renders |-> "off"]

\* A template of the catalogue is compiled and rendered NRenders times,
\* each call with a data dictionary of its own.
Init ==
    /\ InitCommon
    /\ chars = <<>>
    /\ tokens \in Catalogue
    /\ cstate = "new"
    /\ rdata \in [Renders -> DataSet]
    /\ rpc = [r \in Renders |-> "idle"]

NextParser == ParseStart \/ ParseStep \/ ParseFinish

Next ==
    \/ ParseStart
    \/ ParseStep
    \/ ParseFinish
    \/ \E r \in Renders : RenderStart(r)
    \/ \E r \in Renders : RenderStep(r)

NextLexer == Lex \/ Next

Spec == Init /\ [][Next]_vars
SpecParser == InitParser /\ [][NextParser]_vars
SpecLexer == InitLexer /\ [][NextLexer]_vars

\* Templates whose expressions apply filters: in a print tag, on a literal,
\* after a registered filter, with an argument, in the ternary form, and in
\* the tags for, if, elif, cycle and with.
FilterTemplates ==
    {<<PrintTok(<<"x", "|", "bogus">>)>>,
     <<PrintTok(<<"'a'", "|", "bogus">>)>>,
     <<PrintTok(<<"x", "|", "escape", "|", "bogus">>)>>,
     <<PrintTok(<<"x", "|", "bogus", ":", "1">>)>>,
     <<PrintTok(<<"x", "|", "bogus", "??", "'yes'", "::", "'no'">>)>>,
     <<TextTok("a"), SyntaxTok(<<"for", "i", "in", "x", "|", "bogus">>),
       SyntaxTok(<<"endfor">>)>>,
     <<SyntaxTok(<<"if", "x", "|", "bogus">>), TextTok("A"),
       SyntaxTok(<<"endif">>)>>,
     <<SyntaxTok(<<"if", "x">>), TextTok("A"),
       SyntaxTok(<<"elif", "y", "|", "bogus">>), TextTok("B"),
       SyntaxTok(<<"endif">>)>>,
     <<SyntaxTok(<<"cycle", "x", "|", "bogus">>)>>,
     <<SyntaxTok(<<"with", "z", "=", "x", "|", "bogus">>), PrintTok(<<"z">>),
       SyntaxTok(<<"endwith">>)>>,
     <<PrintTok(<<"x", "|", "escape">>)>>,
     <<PrintTok(<<"x", "|", "default", ":", "1">>)>>}

\* {% for names in x %} body {% empty %} empty {% endfor %}
ForOf(names, body, empty) ==
    <<SyntaxTok(<<"for">> \o names \o <<"in", "x">>)>> \o body
        \o (IF empty = <<>> THEN <<>> ELSE <<SyntaxTok(<<"empty">>)>> \o empty)
        \o <<SyntaxTok(<<"endfor">>)>>

\* Loops with one loop variable, with and without an empty clause.
ForTemplates ==
    {ForOf(<<"i">>, <<PrintTok(<<"i">>)>>, <<>>),
     ForOf(<<"i">>, <<PrintTok(<<"i">>)>>, <<TextTok("E")>>),
     ForOf(<<"i">>, <<PrintTok(<<"i">>), TextTok(",")>>, <<TextTok("E")>>)}

\* Loops with two loop variables.
UnpackTemplates ==
    {ForOf(<<"k", ",", "v">>, <<PrintTok(<<"k">>), PrintTok(<<"v">>)>>, <<>>),
     ForOf(<<"k", ",", "v">>, <<PrintTok(<<"k">>), TextTok("="), PrintTok(<<"v">>)>>,
           <<TextTok("E")>>)}

\* {% if cond %}A{% else %}B{% endif %}
IfOf(cond) ==
    <<SyntaxTok(<<"if">> \o cond), TextTok("A"), SyntaxTok(<<"else">>),
      TextTok("B"), SyntaxTok(<<"endif">>)>>

\* Tests of whether a name is defined.
DefinedTemplates ==
    {IfOf(<<"not", "defined", "(", "\"x\"", ")">>),
     IfOf(<<"defined", "(", "'x'", ")">>)}

\* Conditions whose evaluation can raise: range called without arguments
\* (TypeError, raised as CallError), an ordering of a value and a number.
RaisingConditions ==
    {<<"range">>, <<"not", "range">>, <<"x", "<", "1">>, <<"not", "x", "<", "1">>}
RaisingTemplates ==
    {IfOf(c) : c \in RaisingConditions}
        \cup {<<SyntaxTok(<<"if", "z">>), TextTok("A"),
                SyntaxTok(<<"elif">> \o c), TextTok("C"), SyntaxTok(<<"else">>),
                TextTok("B"), SyntaxTok(<<"endif">>)>> : c \in RaisingConditions}

\* {% if x %}A{% elif y %}C{% elif z %}D{% else %}B{% endif %} with its
\* first n elif clauses, and with its else clause or without
ChainOf(n, else) ==
    <<SyntaxTok(<<"if", "x">>), TextTok("A")>>
        \o SubSeq(<<SyntaxTok(<<"elif", "y">>), TextTok("C"),
                    SyntaxTok(<<"elif", "z">>), TextTok("D")>>, 1, 2 * n)
        \o (IF else THEN <<SyntaxTok(<<"else">>), TextTok("B")>> ELSE <<>>)
        \o <<SyntaxTok(<<"endif">>)>>

\* A chain whose first branch holds a chain of its own.
NestedChain ==
    <<SyntaxTok(<<"if", "x">>)>> \o IfOf(<<"y">>) \o <<TextTok("-")>>
        \o <<SyntaxTok(<<"elif", "z">>), TextTok("D"), SyntaxTok(<<"else">>),
             TextTok("E"), SyntaxTok(<<"endif">>)>>

ChainTemplates ==
    {ChainOf(n, else) : n \in 0..2, else \in BOOLEAN} \cup {NestedChain}

\* Conditions joined by 'and' and 'or', in words and in signs.
GroupConditions ==
    {<<"x", "and", "y">>, <<"x", "or", "y">>,
     <<"x", "and", "y", "or", "z">>, <<"x", "or", "y", "and", "z">>,
     <<"x", "and", "y", "and", "z">>, <<"x", "or", "y", "or", "z">>,
     <<"not", "x", "and", "y">>, <<"x", "and", "not", "y", "or", "z">>,
     <<"not", "x", "or", "not", "y", "and", "not", "z">>,
     <<"x", "&&", "y", "||", "z">>, <<"x", "||", "y", "&&", "z">>}
GroupTemplates == {IfOf(c) : c \in GroupConditions}

\* The templates the tags are checked on.
TagTemplates ==
    FilterTemplates \cup ForTemplates \cup UnpackTemplates \cup DefinedTemplates
        \cup RaisingTemplates \cup ChainTemplates \cup GroupTemplates

\* The values the loops run over.
ForValues ==
    {VList(<<>>), VTuple(<<>>), VStr(""), VDict(EmptyDict), VInt(0), VNone,
     VInt(5), VBool(TRUE), VEmptyIter,
     VStr("a"), VTuple(<<VInt(1), VInt(2)>>),
     VList(<<VInt(1), VInt(2), VInt(3)>>), VDict([a |-> VInt(1)]),
     VList(<<VTuple(<<VInt(1), VInt(2)>>)>>),
     VList(<<VTuple(<<VInt(1), VInt(2)>>), VList(<<VStr("a"), VStr("b")>>)>>),
     VList(<<VTuple(<<VInt(1), VInt(2), VInt(3)>>)>>),
     VList(<<VTuple(<<VInt(1)>>)>>),
     VList(<<VInt(5)>>),
     VList(<<VTuple(<<VInt(1), VInt(2)>>), VNone>>)}

\* Every assignment of a true or a false value to x, y and z.
TruthData ==
    {[x |-> VInt(a), y |-> VInt(b), z |-> VInt(c)] : a, b, c \in {0, 1}}

\* The data dictionaries the tags are checked with.
TagData ==
    {EmptyDict} \cup {[x |-> v] : v \in ForValues} \cup TruthData

\* A template of TagTemplates is compiled and rendered NRenders times, every
\* call with the same data.
InitTags ==
    /\ InitCommon
    /\ chars = <<>>
    /\ tokens \in TagTemplates
    /\ cstate = "new"
    /\ rdata \in {[r \in Renders |-> d] : d \in TagData}
    /\ rpc = [r \in Renders |-> "idle"]

SpecTags == InitTags /\ [][Next]_vars

----------------------------------------------------------------------------
(* The properties.                                                         *)

\* The names of the exceptions a compile or a render call can end with.
Exceptions ==
    {"NestingError", "InvalidTag", "InvalidFilter", "TemplateSyntaxError",
     "TemplateNotFound", "CallError", "FilterError", "UnpackingError",
     "TypeError", "KeyError", "AttributeError"}

\* The render call r has returned.
Done(r) == rpc[r] = "done"

\* No tag stands in the source: the pattern of the lexer matches nowhere.
TagFree(cs) == \A i \in 1..Len(cs) : MatchAt(cs, i) = 0

\* C1: a source that contains no tags compiles, and every render call of it
\* returns the source, character for character, whatever the data.
C1_TagFreeIdentity ==
    TagFree(chars) =>
        /\ cstate \notin Exceptions
        /\ \A r \in Renders :
            /\ rpc[r] \notin Exceptions
            /\ Done(r) => out[r] = Join(chars)

\* The name a template of the form {{ n }} prints.
PrintedName == tokens[1].content[1]

\* The name n is bound in no scope of a new Context: not in the caller's
\* data, not in config.builtins, not in the dictionary of the Context.
Unbound(r, n) ==
    /\ n \notin DOMAIN rdata[r]
    /\ n \notin DOMAIN config_builtins
    /\ n \notin {"context", "defined"}

\* C2: {{ n }} renders the string of the value the caller's data binds to n,
\* and the empty string when no scope binds n.
C2_PrintRendersBinding ==
    tokens \in PrintTemplates =>
        \A r \in Renders :
            /\ PrintedName \in DOMAIN rdata[r] =>
                  /\ rpc[r] \notin Exceptions
                  /\ Done(r) => out[r] = Str(rdata[r][PrintedName], EmptyDict)
            /\ Unbound(r, PrintedName) =>
                  /\ rpc[r] \notin Exceptions
                  /\ Done(r) => out[r] = ""

\* The words of the test of a template of the form {{ test ?? 'yes' :: 'no' }}.
TestOf(toks) == SubSeq(toks[1].content, 1, Len(toks[1].content) - 4)

\* The value of the test as an expression: a literal, a variable of the
\* caller's data, or Undefined.  The words of a comparison are no literal
\* and name no variable.
TestValue(r) ==
    IF IsLiteral(TestOf(tokens)) THEN Literals[TestOf(tokens)[1]]
    ELSE IF Len(TestOf(tokens)) = 1 /\ TestOf(tokens)[1] \in DOMAIN rdata[r]
    THEN rdata[r][TestOf(tokens)[1]]
    ELSE Undefined

\* C3 (as the code has it): a print tag in ternary form renders the first
\* alternative when its test, taken as one expression, has a true value and
\* the second otherwise; a comparison is not evaluated, it has the value
\* Undefined, so that with 1 > 0 and with 0 > 1 the tag renders 'no'.
C3_TernaryByTruth ==
    tokens \in TernaryTemplates =>
        \A r \in Renders :
            /\ rpc[r] \notin Exceptions
            /\ Done(r) => out[r] = IF Truth(TestValue(r)) THEN "yes" ELSE "no"

\* C3, a case: the test is the comparison 1 > 0 and the tag has rendered
\* the second alternative.
C3_Witness ==
    /\ tokens = TernaryOf(<<"1", ">", "0">>)
    /\ Done(1)
    /\ out[1] = "no"

\* C3 as stated: with the test 1 > 0 the tag renders 'yes', with 0 > 1 'no'.
C3_ComparisonTernary ==
    \A r \in Renders :
        /\ (tokens = TernaryOf(<<"1", ">", "0">>) /\ Done(r)) => out[r] = "yes"
        /\ (tokens = TernaryOf(<<"0", ">", "1">>) /\ Done(r)) => out[r] = "no"

\* The block before id in the list the registry keeps for its title: the
\* immediate ancestor of the block, 0 if it has none.
Ancestor(id) ==
    LET list == tmpl.registry[world.nodes[id].names[1]]
        k == IndexOf(list, id, 1)
    IN IF k <= 1 THEN 0 ELSE list[k - 1]

\* C4: every call of super made from the body of a block renders the
\* immediate ancestor of that block, however many calls were made before.
C4_SuperImmediateAncestor ==
    \A r \in Renders :
        ctx[r].stack # <<>> =>
            \A i \in 1..Len(ctx[r].calls) :
                ctx[r].calls[i].from # 0 =>
                    ctx[r].calls[i].block = Ancestor(ctx[r].calls[i].from)

\* The child template names 'base' as its parent and has a block titled t.
ExtendsBase == SyntaxTok(<<"extends", "'base'">>)
BlockAt == IndexOf(tokens, SyntaxTok(<<"block", "t">>), 1)
EndAt == IndexOf(tokens, SyntaxTok(<<"endblock">>), 1)
OverridesBase ==
    /\ tokens \in ExtendsTemplates
    /\ \E k \in 1..Len(tokens) : tokens[k] = ExtendsBase
    /\ BlockAt # 0

\* The tokens of the body of the child's block, and those outside of it.
Body == SubSeq(tokens, BlockAt + 1, EndAt - 1)
Outside == SubSeq(tokens, 2, BlockAt - 1) \o SubSeq(tokens, EndAt + 1, Len(tokens))
InvokesSuper == \E k \in 1..Len(Body) : Body[k] = Super

\* What text tokens and prints of names of the caller's data render.
RECURSIVE Plain(_, _)
Plain(toks, r) ==
    IF toks = <<>> THEN ""
    ELSE (IF toks[1].type = "text" THEN toks[1].content[1]
          ELSE IF toks[1].content[1] \in DOMAIN rdata[r]
          THEN Str(rdata[r][toks[1].content[1]], EmptyDict)
          ELSE "") \o Plain(Tail(toks), r)

\* The block of the template 'base', once the loader has compiled it.
BaseBlock == world.cache["base"].registry["t"][1]

\* The render call r has rendered the content of the block of 'base'.
BaseRendered(r) ==
    \E i \in 1..Len(ctx[r].calls) : ctx[r].calls[i].block = BaseBlock

\* C5 (as the code has it): when the child template starts with its extends
\* tag and the body of its block does not invoke super, the content of the
\* child's block is output where the block of the base stands, the content
\* of the block of the base is not output, and the child's own occurrence
\* of the block renders as the empty string.
C5_ChildOverridesBase ==
    (OverridesBase /\ tokens[1] = ExtendsBase /\ ~InvokesSuper) =>
        \A r \in Renders :
            /\ rpc[r] \notin Exceptions
            /\ Done(r) =>
                  /\ out[r] = "[" \o Plain(Body, r) \o "]" \o Plain(Outside, r)
                  /\ ~BaseRendered(r)

\* C5, a case: the child has text before and after its block.
C5_Witness ==
    /\ tokens = ChildOf("'base'", <<TextTok("x")>>, "t", <<TextTok("C")>>,
                        <<TextTok("y")>>)
    /\ Done(1)
    /\ out[1] = "[C]xy"

\* C5 as stated: whenever the child and the base define a block of the same
\* title, the content of the block of the base is not output.
C5_BaseContentNotOutput ==
    OverridesBase => \A r \in Renders : Done(r) => ~BaseRendered(r)

\* The first n values a cycle over items yields, as one string.
RECURSIVE CycleRun(_, _)
CycleRun(items, n) ==
    IF n = 0 THEN ""
    ELSE CycleRun(items, n - 1) \o items[((n - 1) % Len(items)) + 1]

\* The number of turns of {% for i in x %} with the data of the render call r.
TurnsOverX(r) ==
    IF "x" \in DOMAIN rdata[r] THEN Len(Items(rdata[r]["x"])) ELSE 0

\* What a template of CycleTemplates renders when each of its cycle tags
\* starts at the first value of its sequence.
CycleExpected(r) ==
    IF tokens = <<Cycle("'a', 'b'"), Cycle("'a', 'b'")>>
    THEN CycleRun(<<"a", "b">>, 1) \o CycleRun(<<"a", "b">>, 1)
    ELSE IF tokens[1] = Cycle("'a', 'b'")
    THEN CycleRun(<<"a", "b">>, 1) \o "-" \o CycleRun(<<"a", "b">>, 3)
    ELSE CycleRun(<<"1", "2">>, TurnsOverX(r)) \o CycleRun(<<"1", "2">>, 1)

\* C6: in every render call of a compiled template, in whatever order the
\* steps of the calls are taken, each cycle tag starts at the first value
\* of its sequence.
C6_CycleStartsAtFirst ==
    tokens \in CycleTemplates =>
        \A r \in Renders :
            /\ rpc[r] \notin Exceptions
            /\ Done(r) => out[r] = CycleExpected(r)

\* C6, a case: two render calls have returned, each after three turns of a
\* cycle in a loop.
C6_Witness ==
    /\ tokens[1] = Cycle("'a', 'b'")
    /\ Len(tokens) = 5
    /\ \A r \in Renders : Done(r) /\ out[r] = "a-aba"

\* What the render call r returns when it is the only call made on the
\* compiled template.
Alone(r) ==
    Node_render(Thread([world EXCEPT !.builtins = config_builtins],
                       Context_init(rdata[r], tmpl)),
                tmpl.root).o

\* C7: every render call of a compiled template returns what it returns
\* when run alone, however the steps of the calls are interleaved.
C7_RendersIndependent ==
    \A r \in Renders : Done(r) => out[r] = Alone(r)

\* The token the loop of Template._parse is at is an end tag that does not
\* end the innermost open block.
AtWrongEndTag ==
    /\ cstate = "parse"
    /\ pos <= Len(tokens)
    /\ tokens[pos].type = "syntax"
    /\ tokens[pos].tag \in nodemap_endtags
    /\ (expecting = <<>> \/ Last(expecting) # tokens[pos].tag)

\* C8: an end tag that is not the end tag of the innermost open block makes
\* the compile fail with NestingError, whose message names the tag found:
\* 'not expecting' it when no block is open, 'expecting' the end tag of the
\* innermost open block, 'found' it, otherwise.
C8_WrongEndTagRaises ==
    [][AtWrongEndTag =>
          /\ cstate' = "NestingError"
          /\ cmsg' = IF expecting = <<>>
                     THEN <<"not expecting", tokens[pos].tag>>
                     ELSE <<"expecting", Last(expecting), "found", tokens[pos].tag>>
      ]_vars

\* C8, a case: {% if x %}{% endfor %}.
C8_Witness ==
    /\ cstate = "NestingError"
    /\ cmsg = <<"expecting", "endif", "found", "endfor">>

\* Every block a token of toks opens is closed by its own end tag, the last
\* opened first; open holds the end tags of the blocks open before token k.
RECURSIVE Balanced(_, _, _)
Balanced(toks, k, open) ==
    IF k > Len(toks) THEN open = <<>>
    ELSE IF toks[k].type = "syntax" /\ toks[k].tag \in nodemap_endtags
    THEN open # <<>> /\ Last(open) = toks[k].tag
            /\ Balanced(toks, k + 1, Front(open))
    ELSE IF toks[k].type = "syntax" /\ toks[k].tag \in DOMAIN nodemap
            /\ nodemap[toks[k].tag] # ""
    THEN Balanced(toks, k + 1, Append(open, nodemap[toks[k].tag]))
    ELSE Balanced(toks, k + 1, open)

\* C9: when the token stream ends while a block is open the compile fails
\* with NestingError and no Template is made; a Template is made only when
\* every block opened was closed by its own end tag, the last opened first.
C9_UnterminatedBlockRaises ==
    [][/\ (cstate = "parse" /\ pos > Len(tokens) /\ expecting # <<>>) =>
              (cstate' = "NestingError" /\ tmpl' = NoTemplate)
       /\ cstate' = "ok" => (Balanced(tokens, 1, <<>>) /\ tmpl'.root # 0)
       /\ tmpl'.root # 0 => cstate' = "ok"
      ]_vars

\* C9, a case: the stream has ended with a block open.
C9_Witness ==
    /\ cstate = "NestingError"
    /\ pos > Len(tokens)
    /\ Len(cmsg) = 2
    /\ cmsg[1] = "expecting"
    /\ tmpl = NoTemplate

\* C10: a syntax token whose tag is neither a registered tag nor a
\* registered end tag makes the compile fail with InvalidTag.
C10_UnknownTagInvalid ==
    [][(/\ cstate = "parse"
        /\ pos <= Len(tokens)
        /\ tokens[pos].type = "syntax"
        /\ tokens[pos].tag \notin DOMAIN nodemap
        /\ tokens[pos].tag \notin nodemap_endtags) => cstate' = "InvalidTag"
      ]_vars

\* The words of a tag name a filter that is not in filtermap.
UnknownFilterIn(ws) ==
    \E j \in 1..(Len(ws) - 1) : ws[j] = "|" /\ ws[j + 1] \notin filtermap

\* An expression of the template names a filter that is not registered.
NamesUnknownFilter ==
    \E k \in 1..Len(tokens) :
        /\ tokens[k].type \in {"print", "syntax"}
        /\ UnknownFilterIn(tokens[k].content)

LoopRecordTemplate ==
    <<SyntaxTok(<<"for", "i", "in", "x">>), PrintTok(<<"loop.index">>),
      PrintTok(<<"loop.count">>), PrintTok(<<"loop.length">>),
      PrintTok(<<"loop.is_first">>), PrintTok(<<"loop.is_last">>),
      PrintTok(<<"loop.parent">>), TextTok(","), SyntaxTok(<<"endfor">>)>>
NestedLoopTemplate ==
    <<SyntaxTok(<<"for", "i", "in", "x">>), SyntaxTok(<<"for", "k", "in", "y">>),
      PrintTok(<<"loop.index">>), PrintTok(<<"loop.parent.index">>),
      PrintTok(<<"loop.parent.length">>), PrintTok(<<"loop.parent.parent">>),
      TextTok(","), SyntaxTok(<<"endfor">>), SyntaxTok(<<"endfor">>)>>

\* The templates the loop record is checked on.
LoopRecordTemplates == {LoopRecordTemplate, NestedLoopTemplate}

\* Two cycle tags of two and of three values in the body of a loop, and a
\* cycle tag over the value of a variable.
TwoCyclesTemplate ==
    <<SyntaxTok(<<"for", "i", "in", "x">>), Cycle("'a', 'b'"),
      Cycle("1, 2, 3"), TextTok(","), SyntaxTok(<<"endfor">>)>>
VariableCycleTemplate ==
    <<SyntaxTok(<<"for", "i", "in", "x">>), Cycle("y"), TextTok(","),
      SyntaxTok(<<"endfor">>)>>

\* The templates the position of a cycle tag is checked on.
CycleLoopTemplates == {TwoCyclesTemplate, VariableCycleTemplate}

LoopTemplates == LoopRecordTemplates \cup CycleLoopTemplates

\* The largest number of items of a loop.
MaxItems == 4

\* The list of the first n positive numbers.
Numbers(n) == VList([k \in 1..n |-> VInt(k)])

\* The data of the loops: x a list of 0 to MaxItems items, y a pair; in
\* some the caller binds the name loop as well.
LoopData ==
    {[x |-> Numbers(n), y |-> VTuple(<<VInt(1), VInt(2)>>)] : n \in 0..MaxItems}
        \cup {[x |-> Numbers(n), y |-> VStr("a"), loop |-> VInt(5)] : n \in 1..2}

\* A template of LoopTemplates is compiled and rendered NRenders times with
\* the same data.
InitLoops ==
    /\ InitCommon
    /\ chars = <<>>
    /\ tokens \in LoopTemplates
    /\ cstate = "new"
    /\ rdata \in {[r \in Renders |-> d] : d \in LoopData}
    /\ rpc = [r \in Renders |-> "idle"]

SpecLoops == InitLoops /\ [][Next]_vars

\* Templates that include another: by a literal name, and by a name that is
\* evaluated when the tag is rendered.
IncludeTemplates ==
    {<<TextTok("a"), SyntaxTok(<<"include", "'base'">>)>>,
     <<SyntaxTok(<<"include", "'mid'">>), SyntaxTok(<<"include", "'base'">>)>>,
     <<TextTok("a"), SyntaxTok(<<"include", "z">>)>>,
     <<SyntaxTok(<<"block", "t">>), TextTok("X"), SyntaxTok(<<"endblock">>),
       SyntaxTok(<<"include", "z">>)>>}

\* The templates and the data the registry of blocks is checked on.
BlockTemplates == ExtendsTemplates \cup IncludeTemplates
BlockData ==
    {[z |-> VStr("base")], [z |-> VStr("mid")],
     [z |-> VStr("base"), foo |-> VStr("ham")]}

\* A template of BlockTemplates is compiled and rendered NRenders times.
InitBlocks ==
    /\ InitCommon
    /\ chars = <<>>
    /\ tokens \in BlockTemplates
    /\ cstate = "new"
    /\ rdata \in [Renders -> BlockData]
    /\ rpc = [r \in Renders |-> "idle"]

SpecBlocks == InitBlocks /\ [][Next]_vars

\* Tags that push a scope, each followed by prints of the names it bound.
BindingTemplates ==
    {<<SyntaxTok(<<"for", "i", "in", "x">>), PrintTok(<<"i">>),
       SyntaxTok(<<"endfor">>), PrintTok(<<"i">>), PrintTok(<<"loop">>)>>,
     <<SyntaxTok(<<"with", "z", "=", "x">>), PrintTok(<<"z">>),
       SyntaxTok(<<"endwith">>), PrintTok(<<"z">>)>>,
     ChildOf("'base'", <<>>, "t", <<TextTok("C"), Super>>, <<Super>>)}

\* Templates that reach the Context through the name context.
PoppingTemplates ==
    {<<PrintTok(<<"context.pop">>), PrintTok(<<"x">>)>>,
     <<PrintTok(<<"context.update", "(", "{'z': 'Z'}", ")">>), PrintTok(<<"z">>)>>,
     <<SyntaxTok(<<"for", "i", "in", "x">>), PrintTok(<<"context.pop">>),
       SyntaxTok(<<"endfor">>), PrintTok(<<"x">>)>>}

\* The templates and the data the scopes of a render are checked on.
ScopeTemplates == BindingTemplates \cup PoppingTemplates \cup ContextTemplates
ScopeData ==
    {[x |-> VTuple(<<VInt(1), VInt(2)>>)], [x |-> VStr("a")],
     [x |-> VTuple(<<>>)]}

\* A template of ScopeTemplates is compiled and rendered NRenders times.
InitScopes ==
    /\ InitCommon
    /\ chars = <<>>
    /\ tokens \in ScopeTemplates
    /\ cstate = "new"
    /\ rdata \in [Renders -> ScopeData]
    /\ rpc = [r \in Renders |-> "idle"]

SpecScopes == InitScopes /\ [][Next]_vars

\* The deepest stack the calls on a Context make.
MaxDepth == 4

\* The keys the calls on a Context look up, the keys and the value they
\* write, and the data the Context is made with.
ContextKeys == {"a", "range"}
WrittenKeys == {"a"}
ContextValues == {VInt(1)}
ContextData == {EmptyDict, [a |-> VInt(0)], [a |-> VInt(0), range |-> VInt(0)]}

\* The Context of call 1 takes the state T a method left.
ContextCalled(T) ==
    /\ world' = T.w
    /\ ctx' = [ctx EXCEPT ![1] = T.c]
    /\ UNCHANGED <<chars, tokens, pos, stack, expecting, cstate, cmsg, tmpl,
                   rpc, rpos, rdata>>

\* context[key] = value; with an empty stack it raises IndexError and
\* leaves the Context as it is
ContextSetItem(key, value) ==
    /\ cstate = "context"
    /\ ctx[1].stack # <<>>
    /\ ContextCalled(Context_setitem(Thread(world, ctx[1]), key, value))
    /\ out' = out

\* context.update(d)
ContextUpdate(d) ==
    /\ cstate = "context"
    /\ ctx[1].stack # <<>>
    /\ ContextCalled(Context_update(Thread(world, ctx[1]), d))
    /\ out' = out

\* context.push()
ContextPush ==
    /\ cstate = "context"
    /\ Len(ctx[1].stack) < MaxDepth
    /\ ContextCalled(Context_push(Thread(world, ctx[1])))
    /\ out' = out

\* context.pop(); with an empty stack it raises IndexError
ContextPop ==
    /\ cstate = "context"
    /\ ctx[1].stack # <<>>
    /\ ContextCalled(Context_pop(Thread(world, ctx[1])))
    /\ out' = out

\* context.get(key): out takes repr() of the value returned
ContextGet(key) ==
    /\ cstate = "context"
    /\ out' = [out EXCEPT ![1] = Repr(Context_get(Thread(world, ctx[1]), key, VNone))]
    /\ UNCHANGED <<chars, tokens, pos, stack, expecting, cstate, cmsg, world,
                   tmpl, ctx, rpc, rpos, rdata>>

\* context[key]: out takes repr() of the value returned, or the name of the
\* exception raised
ContextGetItem(key) ==
    /\ cstate = "context"
    /\ out' = [out EXCEPT ![1] =
                  IF Context_contains(Thread(world, ctx[1]), key)
                  THEN Repr(Context_get(Thread(world, ctx[1]), key, Undefined))
                  ELSE "KeyError"]
    /\ UNCHANGED <<chars, tokens, pos, stack, expecting, cstate, cmsg, world,
                   tmpl, ctx, rpc, rpos, rdata>>

\* A Context is made of a data dictionary and its methods are called in
\* any order.
InitContext ==
    /\ rdata \in {[r \in Renders |-> d] : d \in ContextData}
    /\ pos = 0
    /\ stack = <<>>
    /\ expecting = <<>>
    /\ cmsg = <<>>
    /\ world = World0
    /\ tmpl = NoTemplate
    /\ ctx = [r \in Renders |->
                 IF r = 1 THEN Context_init(rdata[r], NoTemplate) ELSE NoContext]
    /\ rpos = [r \in Renders |-> 0]
    /\ out = [r \in Renders |-> ""]
    /\ chars = <<>>
    /\ tokens = <<>>
    /\ cstate = "context"
    /\ rpc = [r \in Renders |-> "context"]

NextContext ==
    \/ \E key \in WrittenKeys, value \in ContextValues : ContextSetItem(key, value)
    \/ \E value \in ContextValues : ContextUpdate([a |-> value])
    \/ ContextPush
    \/ ContextPop
    \/ \E key \in ContextKeys : ContextGet(key)
    \/ \E key \in ContextKeys : ContextGetItem(key)

SpecContext == InitContext /\ [][NextContext]_vars

\* The templates and the data the two forms of the render call are checked
\* on.
CallTemplates ==
    {PrintOf(n) : n \in {"foo", "x", "self", "z"}}
        \cup {<<PrintTok(<<"x">>), TextTok("a"), PrintTok(<<"self">>)>>,
              IfOf(<<"x">>), IfOf(<<"self">>)}
CallData ==
    {EmptyDict, [x |-> VStr("a")], [foo |-> VInt(1), x |-> VNone],
     [self |-> VStr("s")], [x |-> VStr("a"), self |-> VInt(0)]}

\* A template is compiled; render(m) and render(**m) are called on it with
\* the same entries, the first call with the mapping, the others with named
\* arguments.
InitCall ==
    /\ InitCommon
    /\ chars = <<>>
    /\ tokens \in CallTemplates
    /\ cstate = "new"
    /\ rdata \in {[r \in Renders |-> d] : d \in CallData}
    /\ rpc = [r \in Renders |-> IF r = 1 THEN "idle" ELSE "named"]

NextCall == Next \/ \E r \in Renders : RenderStartNamed(r)

SpecCall == InitCall /\ [][NextCall]_vars

\* The items a value yields when iterated, none for a value that cannot be.
ItemsOf(v) ==
    CASE v.t \in {"tuple", "list"} -> v.xs
      [] v.t = "str" /\ v.s # "" -> <<v>>
      [] v.t = "dict" /\ DOMAIN v.d # {} -> <<VStr(CHOOSE k \in DOMAIN v.d : TRUE)>>
      [] OTHER -> <<>>

\* The items of the value the data of the render call r binds to x.
ItemsOfX(r) ==
    IF "x" \in DOMAIN rdata[r] THEN ItemsOf(rdata[r]["x"]) ELSE <<>>

\* The body of a loop: the tokens between the for tag and the empty tag or,
\* without one, the endfor tag; and the tokens of its empty clause.
EmptyAt == IndexOf(tokens, SyntaxTok(<<"empty">>), 1)
ForBody ==
    SubSeq(tokens, 2, IF EmptyAt # 0 THEN EmptyAt - 1 ELSE Len(tokens) - 1)
ForEmpty ==
    IF EmptyAt # 0 THEN SubSeq(tokens, EmptyAt + 1, Len(tokens) - 1) ELSE <<>>

\* What the tokens toks render with name bound to item: text as it stands,
\* a print of name as the string of the item.
RECURSIVE BodyWith(_, _, _)
BodyWith(toks, name, item) ==
    IF toks = <<>> THEN ""
    ELSE (IF toks[1].type = "text" THEN toks[1].content[1]
          ELSE IF toks[1].content = <<name>> THEN Str(item, EmptyDict)
          ELSE "") \o BodyWith(Tail(toks), name, item)

\* The body rendered once for every item from k on, in order.
RECURSIVE OncePerItem(_, _)
OncePerItem(items, k) ==
    IF k > Len(items) THEN ""
    ELSE BodyWith(ForBody, "i", items[k]) \o OncePerItem(items, k + 1)

\* C12: a for tag over a value that yields n >= 1 items renders its body
\* once for every item, in order, with the loop variable bound to the item;
\* over a value that is empty, false or cannot be iterated it renders its
\* empty clause, the empty string when it has none.
C12_ForOncePerItem ==
    tokens \in ForTemplates =>
        \A r \in Renders :
            /\ rpc[r] \notin Exceptions
            /\ Done(r) =>
                  out[r] = IF ItemsOfX(r) # <<>> THEN OncePerItem(ItemsOfX(r), 1)
                           ELSE BodyWith(ForEmpty, "", VNone)

\* The value x is bound to in the data of the render call r is not an
\* iterator.
NoIterator(r) == "x" \in DOMAIN rdata[r] => rdata[r]["x"].t # "iter"

\* C12 for values whose truth says whether they are empty.
C12_ForOverContainers ==
    tokens \in ForTemplates =>
        \A r \in Renders :
            (NoIterator(r) /\ Done(r)) =>
                out[r] = IF ItemsOfX(r) # <<>> THEN OncePerItem(ItemsOfX(r), 1)
                         ELSE BodyWith(ForEmpty, "", VNone)

\* The item can be destructured into n variables: it yields n items.
Destructures(item, n) == Len(ItemsOf(item)) = n

\* Some item of the value x is bound to cannot be destructured into the two
\* loop variables of the tag.
SomeItemMismatches(r) ==
    \E k \in 1..Len(ItemsOfX(r)) : ~Destructures(ItemsOfX(r)[k], 2)

\* The render call r has ended, with a string or with an exception.
Ended(r) == Done(r) \/ rpc[r] \in Exceptions

\* C15: in a for tag with two loop variables, an item that cannot be
\* destructured into two variables makes the render call fail with
\* UnpackingError, and the call returns no output.
C15_MismatchRaisesUnpackingError ==
    tokens \in UnpackTemplates =>
        \A r \in Renders :
            (Ended(r) /\ SomeItemMismatches(r)) =>
                rpc[r] = "UnpackingError" /\ out[r] = ""

\* Some item of the value x is bound to cannot be iterated at all.
SomeItemNotIterable(r) ==
    \E k \in 1..Len(ItemsOfX(r)) : ~Iterable(ItemsOfX(r)[k])

\* C15 for the items the code raises on: those that cannot be iterated.
C15_NotIterableRaises ==
    tokens \in UnpackTemplates =>
        \A r \in Renders :
            Ended(r) => (rpc[r] = "UnpackingError" <=> SomeItemNotIterable(r))

\* C13: {% if not defined("x") %}A{% else %}B{% endif %} renders A when x
\* is bound in no scope and B when the data binds it, whatever the value.
C13_NotDefinedByBinding ==
    tokens = IfOf(<<"not", "defined", "(", "\"x\"", ")">>) =>
        \A r \in Renders :
            /\ rpc[r] \notin Exceptions
            /\ Done(r) =>
                  out[r] = IF "x" \in DOMAIN rdata[r] THEN "B" ELSE "A"

\* C13, a case: x is bound to None and the tag has rendered B.
C13_Witness ==
    /\ tokens = IfOf(<<"not", "defined", "(", "\"x\"", ")">>)
    /\ rdata[1] = [x |-> VNone]
    /\ Done(1)
    /\ out[1] = "B"

\* The words of the condition of the last if or elif tag of the template.
LastCondition ==
    Tail(IF tokens[3].tag = "elif" THEN tokens[3].content ELSE tokens[1].content)

\* The evaluation of the condition raises with the data of the render call
\* r: range() does, and so does x < 1 unless x is bound to a number.
ConditionRaises(r) ==
    \/ Last(LastCondition) = "range"
    \/ "x" \notin DOMAIN rdata[r]
    \/ rdata[r]["x"].t \notin {"int", "bool"}

\* C14: an if or elif condition whose evaluation raises counts as false,
\* negated or not, and the exception does not leave the render of the tag:
\* the else clause is rendered.
C14_RaisingConditionIsFalse ==
    tokens \in RaisingTemplates =>
        \A r \in Renders :
            /\ rpc[r] \notin Exceptions
            /\ (Done(r) /\ ConditionRaises(r)) => out[r] = "B"

\* C14 as the code has it: the exception does not leave the render; the
\* comparison or truth test counts as false and the negation is applied to
\* that, so that a negated condition that raises is true.
C14_RaisingThenNegated ==
    tokens \in RaisingTemplates =>
        \A r \in Renders :
            /\ rpc[r] \notin Exceptions
            /\ (Done(r) /\ ConditionRaises(r)) =>
                  out[r] = IF LastCondition[1] # "not" THEN "B"
                           ELSE IF tokens[3].tag = "elif" THEN "C" ELSE "A"

\* Of the fragments the split of a source yields, alternately unmatched and
\* matched, the unmatched ones that are not empty.
UnmatchedOf(fragments) ==
    SelectSeq([k \in 1..Len(fragments) |->
                   IF k % 2 = 1 THEN fragments[k] ELSE <<>>],
              LAMBDA f : f # <<>>)

\* The Text tokens with the fragments as their contents, verbatim.
TextsOf(fragments) ==
    [k \in 1..Len(fragments) |-> TextTok(Join(fragments[k]))]

\* C16: every fragment of the source the pattern of the lexer did not match
\* is yielded as a Text token with the fragment as its content, wherever it
\* stands, and as no other kind of token: the Text tokens of the stream are
\* the unmatched fragments, in order.
C16_UnmatchedIsText ==
    cstate # "lex" =>
        SelectSeq(tokens, LAMBDA t : t.type = "text")
            = TextsOf(UnmatchedOf(Lexer_split(chars, 1, 1)))

\* C17: render(m) and render(**m) return the same string, for every
\* template and every mapping m with string keys.
C17_NamedEqualsMapping ==
    \A r \in Renders :
        (Ended(1) /\ Ended(r)) => (rpc[r] = rpc[1] /\ out[r] = out[1])

\* C17 for mappings without the key 'self'.
C17_NamedEqualsMappingButSelf ==
    "self" \notin DOMAIN rdata[1] =>
        \A r \in Renders :
            /\ rpc[r] \notin Exceptions
            /\ (Done(1) /\ Done(r)) => out[r] = out[1]

\* The token the loop of Template._parse is at ends the innermost open
\* block.
AtMatchingEndTag ==
    /\ cstate = "parse"
    /\ pos <= Len(tokens)
    /\ tokens[pos].type = "syntax"
    /\ expecting # <<>>
    /\ tokens[pos].tag = Last(expecting)

\* The nodes that exist before a step of the compile.
NodeIds == 1..Len(world.nodes)

\* C18: in every step of a compile, exit_scope is called on a node only
\* when its end tag is consumed, on the node at the top of the stack of open
\* nodes (and on the If nodes its exit_scope makes of elif tags), once; a
\* node whose end tag is consumed has it called and leaves the stack; a node
\* on which it was called gets no further child; a child is appended only
\* to the node at the top of the stack; and when the compile succeeds it
\* was called exactly once on every node that has an end tag.
C18_ExitScopeOnceAtEndTag ==
    [][/\ \A id \in NodeIds :
            /\ world'.nodes[id].exits # world.nodes[id].exits =>
                  /\ AtMatchingEndTag
                  /\ id = Last(stack)
                  /\ world.nodes[id].end_tag = tokens[pos].tag
                  /\ world.nodes[id].exits = 0
                  /\ world'.nodes[id].exits = 1
            /\ world.nodes[id].exits > 0 =>
                  world'.nodes[id].children = world.nodes[id].children
            /\ world'.nodes[id].children # world.nodes[id].children =>
                  /\ id = Last(stack)
                  /\ world'.nodes[id].children
                        = Append(world.nodes[id].children, Len(world.nodes) + 1)
       /\ \A id \in (1..Len(world'.nodes)) \ NodeIds :
            world'.nodes[id].exits # 0 =>
                  /\ AtMatchingEndTag
                  /\ world'.nodes[id].type = "if"
                  /\ tokens[pos].tag = "endif"
                  /\ world'.nodes[id].exits = 1
       /\ (AtMatchingEndTag /\ cstate' \notin Exceptions) =>
            /\ world'.nodes[Last(stack)].exits = 1
            /\ stack' = Front(stack)
       /\ cstate' = "ok" =>
            \A id \in 1..Len(world'.nodes) :
                world'.nodes[id].end_tag # "" <=> world'.nodes[id].exits = 1
      ]_vars

\* C18, a case: an if tag with an elif clause has compiled; exit_scope was
\* called on its node and on the If node made of the elif tag.
C18_Witness ==
    /\ tokens = <<SyntaxTok(<<"if", "x">>), TextTok("a"),
                  SyntaxTok(<<"elif", "x">>), SyntaxTok(<<"endif">>)>>
    /\ cstate = "ok"
    /\ Cardinality({id \in NodeIds : world.nodes[id].type = "if"
                                        /\ world.nodes[id].exits = 1}) = 2

\* The name n is bound to a true value in the data of the render call r.
TrueIn(r, n) == n \in DOMAIN rdata[r] /\ Truth(rdata[r][n])

\* What a chain of if, elif and else clauses with text bodies renders, read
\* off its tokens from k on: state is "seek" while no clause has been taken,
\* "take" in the clause taken, "over" after it.
RECURSIVE ChainText(_, _, _, _)
ChainText(toks, k, state, r) ==
    IF k > Len(toks) THEN ""
    ELSE IF toks[k].type = "text"
    THEN (IF state = "take" THEN toks[k].content[1] ELSE "")
            \o ChainText(toks, k + 1, state, r)
    ELSE IF toks[k].tag \in {"if", "elif"}
    THEN ChainText(toks, k + 1,
                   IF state = "seek" /\ TrueIn(r, toks[k].content[2])
                   THEN "take"
                   ELSE IF state = "seek" THEN "seek" ELSE "over", r)
    ELSE IF toks[k].tag = "else"
    THEN ChainText(toks, k + 1, IF state = "seek" THEN "take" ELSE "over", r)
    ELSE ""

\* What the chain with a chain in its first branch renders.
NestedText(r) ==
    IF TrueIn(r, "x") THEN (IF TrueIn(r, "y") THEN "A" ELSE "B") \o "-"
    ELSE IF TrueIn(r, "z") THEN "D"
    ELSE "E"

\* C19: a chain of if, elif and else clauses renders the body of the first
\* clause, in source order, whose condition is true and nothing else; when
\* no condition is true it renders the body of the else clause, the empty
\* string when there is none.
C19_FirstTrueBranch ==
    tokens \in ChainTemplates =>
        \A r \in Renders :
            /\ rpc[r] \notin Exceptions
            /\ Done(r) =>
                  out[r] = IF tokens = NestedChain THEN NestedText(r)
                           ELSE ChainText(tokens, 1, "seek", r)

\* C19, a case: the first two conditions are false, the third true.
C19_Witness ==
    /\ tokens = ChainOf(2, TRUE)
    /\ rdata[1] = [x |-> VInt(0), y |-> VInt(0), z |-> VInt(1)]
    /\ Done(1)
    /\ out[1] = "D"

\* The truth of one condition, a name or its negation.
ConditionTruth(c, r) ==
    IF c[1] = "not" THEN ~TrueIn(r, c[2]) ELSE TrueIn(r, c[1])

\* The conjunction of the conditions of a group.
GroupTruth(g, r) ==
    \A j \in 1..Len(SplitOn(g, {"and", "&&"}, FALSE, <<>>)) :
        ConditionTruth(SplitOn(g, {"and", "&&"}, FALSE, <<>>)[j], r)

\* The disjunction over the groups of the conjunctions of their conditions.
GroupsTruth(ws, r) ==
    \E i \in 1..Len(SplitOn(ws, {"or", "||"}, FALSE, <<>>)) :
        GroupTruth(SplitOn(ws, {"or", "||"}, FALSE, <<>>)[i], r)

\* C20: the truth value an if tag computes is the disjunction over its
\* groups, separated by 'or', of the conjunction of the conditions of each
\* group, for every assignment of truth values to the conditions.
C20_OrOfAnds ==
    tokens \in GroupTemplates =>
        \A r \in Renders :
            /\ rpc[r] \notin Exceptions
            /\ Done(r) =>
                  out[r] = IF GroupsTruth(Tail(tokens[1].content), r)
                           THEN "A" ELSE "B"

\* C20, a case: x or y and z with x false, y and z true.
C20_Witness ==
    /\ tokens = IfOf(<<"x", "or", "y", "and", "z">>)
    /\ rdata[1] = [x |-> VInt(0), y |-> VInt(1), z |-> VInt(1)]
    /\ Done(1)
    /\ out[1] = "A"

\* str() of a truth value.
BoolStr(b) == IF b THEN "True" ELSE "False"

\* The numbers of items of the loops over x and over y of the render call r.
LenX(r) == Len(ItemsOfX(r))
LenY(r) == Len(ItemsOf(rdata[r]["y"]))

\* What LoopRecordTemplate renders from iteration i on when the loop record
\* is as the claim has it, parent being None.
RECURSIVE RecordText(_, _)
RecordText(i, n) ==
    IF i >= n THEN ""
    ELSE IntStr(i) \o IntStr(i + 1) \o IntStr(n) \o BoolStr(i = 0)
            \o BoolStr(i = n - 1) \o "None" \o "," \o RecordText(i + 1, n)

\* What NestedLoopTemplate renders from iteration j of the inner loop in
\* iteration i of the outer loop on: the inner index, the index and the
\* length of the parent record, and the parent of the parent, None.
RECURSIVE NestedText2(_, _, _, _)
NestedText2(i, j, n, m) ==
    IF i >= n \/ m = 0 THEN ""
    ELSE IF j >= m THEN NestedText2(i + 1, 0, n, m)
    ELSE IntStr(j) \o IntStr(i) \o IntStr(n) \o "None" \o ","
            \o NestedText2(i, j + 1, n, m)

\* C21: in iteration i (from 0) of a for tag over n items the body sees a
\* loop record with index i, count i + 1, length n, is_first true iff i = 0,
\* is_last true iff i = n - 1, and parent the loop record of the enclosing
\* iteration, None when the tag is not nested in another.
C21_LoopRecord ==
    tokens \in LoopRecordTemplates =>
        \A r \in Renders :
            /\ rpc[r] \notin Exceptions
            /\ Done(r) =>
                  out[r] = IF tokens = LoopRecordTemplate
                           THEN RecordText(0, LenX(r))
                           ELSE NestedText2(0, 0, LenX(r), LenY(r))

\* C21 for data in which the caller does not bind the name loop.
C21_LoopRecordUnlessBound ==
    tokens \in LoopRecordTemplates =>
        \A r \in Renders :
            ("loop" \notin DOMAIN rdata[r] /\ Done(r)) =>
                out[r] = IF tokens = LoopRecordTemplate
                         THEN RecordText(0, LenX(r))
                         ELSE NestedText2(0, 0, LenX(r), LenY(r))

\* What the k-th to the n-th iteration render when the cycle tags of the
\* body cycle through the values first and second (second may be empty, for
\* a body of one cycle tag), each from its own position.
RECURSIVE CyclesText(_, _, _, _)
CyclesText(k, n, first, second) ==
    IF k > n THEN ""
    ELSE first[((k - 1) % Len(first)) + 1]
            \o (IF second = <<>> THEN ""
                ELSE second[((k - 1) % Len(second)) + 1])
            \o "," \o CyclesText(k + 1, n, first, second)

\* The values of y in the data of the render call r, as they are printed.
PrintedY(r) ==
    [k \in 1..LenY(r) |-> Str(ItemsOf(rdata[r]["y"])[k], EmptyDict)]

\* The Cycle nodes of the compiled template.
CycleNodes == {id \in NodeIds : world.nodes[id].type = "cycle"}

\* C22: the k-th render of a cycle node in one render call returns the
\* value at position (k - 1) mod n of its n values, and the position is
\* kept in the stash of the render context under the node's identity: two
\* cycle nodes of one template advance independently.
C22_CyclePosition ==
    tokens \in CycleLoopTemplates =>
        \A r \in Renders :
            /\ rpc[r] \notin Exceptions
            /\ Done(r) =>
                  /\ out[r] = IF tokens = TwoCyclesTemplate
                              THEN CyclesText(1, LenX(r), <<"a", "b">>,
                                              <<"1", "2", "3">>)
                              ELSE CyclesText(1, LenX(r), PrintedY(r), <<>>)
                  /\ DOMAIN ctx[r].stash =
                         IF LenX(r) = 0 THEN {} ELSE CycleNodes
                  /\ \A id \in DOMAIN ctx[r].stash :
                         ctx[r].stash[id].next =
                             (LenX(r) % Len(ctx[r].stash[id].items)) + 1

\* C22, a case: a render call has returned after four iterations in which
\* the cycle of two values wrapped twice and the cycle of three once.
C22_Witness ==
    /\ tokens = TwoCyclesTemplate
    /\ Done(1)
    /\ out[1] = "a1,b2,a3,b1,"
    /\ Cardinality(DOMAIN ctx[1].stash) = 2

\* The dictionary at position i of the stack of the Context of call 1, in
\* the state before and in the state after a step.
ScopeAt(i) == ScopeDict(Thread(world, ctx[1]), ctx[1].stack[i])
ScopeAfter(i) == ScopeDict(Thread(world', ctx'[1]), ctx'[1].stack[i])

\* The scopes of the stack that hold key.
ScopesWith(key) == {i \in 1..Len(ctx[1].stack) : key \in DOMAIN ScopeAt(i)}

\* The highest position of a set of positions.
Highest(S) == CHOOSE i \in S : \A j \in S : j <= i

\* repr() of the value of key in the topmost scope that holds it; missing
\* when no scope holds it.
TopmostValue(key, missing) ==
    IF ScopesWith(key) = {} THEN missing
    ELSE Repr(ScopeAt(Highest(ScopesWith(key)))[key])

\* A write of the dictionary d changed the top scope by d's entries and
\* nothing else of the stack.
WroteTopOnly(d) ==
    /\ Len(ctx'[1].stack) = Len(ctx[1].stack)
    /\ \A i \in 1..(Len(ctx[1].stack) - 1) : ScopeAfter(i) = ScopeAt(i)
    /\ ScopeAfter(Len(ctx[1].stack)) = DictUpdate(ScopeAt(Len(ctx[1].stack)), d)

\* C23: a lookup of a key on a Context (context[key], context.get(key))
\* returns the value of the topmost scope of the stack that holds the key,
\* and an assignment (context[key] = value, context.update(d)) writes to
\* the top scope only: every scope below it is left as it was.
C23_LookupTopmostWriteTop ==
    [][/\ \A key \in ContextKeys :
              /\ ContextGet(key) => out'[1] = TopmostValue(key, "None")
              /\ ContextGetItem(key) => out'[1] = TopmostValue(key, "KeyError")
       /\ \A key \in WrittenKeys, value \in ContextValues :
              ContextSetItem(key, value) =>
                  WroteTopOnly(DictSet(EmptyDict, key, value))
       /\ \A value \in ContextValues :
              ContextUpdate([a |-> value]) => WroteTopOnly([a |-> value])]_vars

\* C23, a case: the key a is bound to 0 in the caller's data and to 1 in a
\* scope pushed above it; the lookup returned 1 and the caller's data and
\* the builtins kept their values.
C23_Witness ==
    /\ cstate = "context"
    /\ Len(ctx[1].stack) = 4
    /\ ScopeAt(2) = config_builtins
    /\ ScopeAt(3) = [a |-> VInt(0)]
    /\ ScopeAt(4) = [a |-> VInt(1)]
    /\ out[1] = "1"

Registered(id) ==
    /\ world.nodes[id].names[1] \in DOMAIN tmpl.registry
    /\ \E k \in 1..Len(tmpl.registry[world.nodes[id].names[1]]) :
           tmpl.registry[world.nodes[id].names[1]][k] = id

\* The template has an include tag whose target is not a literal.
IncludesByVariable ==
    \E k \in 1..Len(tokens) : tokens[k] = SyntaxTok(<<"include", "z">>)

\* C25: every Block node rendered in a render call of a template is in the
\* list the registry of that template holds for the node's title, whether
\* it was reached through extends, through an include of a literal name or
\* through an include of a name evaluated at render time.
C25_RenderedBlockRegistered ==
    \A r \in Renders :
        "rendered" \in DOMAIN ctx[r] =>
            \A id \in ctx[r].rendered : Registered(id)

\* C25 for the templates whose extends and include tags name a literal.
C25_StaticBlockRegistered ==
    ~IncludesByVariable =>
        \A r \in Renders :
            /\ rpc[r] # "KeyError"
            /\ "rendered" \in DOMAIN ctx[r] =>
                   \A id \in ctx[r].rendered : Registered(id)

\* C26: at every step of a compile the stack of open nodes has one entry
\* more than the stack of expected end tags, its bottom entry is the root
\* node, and the i-th expected end tag is the end tag of the class of the
\* (i+1)-th open node.
C26_StacksAligned ==
    cstate = "parse" =>
        /\ Len(stack) = Len(expecting) + 1
        /\ world.nodes[stack[1]].type = "root"
        /\ \A i \in 1..Len(expecting) :
               /\ world.nodes[stack[i + 1]].type # "root"
               /\ expecting[i] = nodemap[world.nodes[stack[i + 1]].type]
               /\ expecting[i] = world.nodes[stack[i + 1]].end_tag

\* C26, a case: three nodes of three classes are open, the innermost an If
\* node.
C26_Witness ==
    /\ cstate = "parse"
    /\ expecting = <<"endfor", "endblock", "endif">>
    /\ Len(stack) = 4
    /\ world.nodes[stack[4]].type = "if"

\* The render call r renders a child of the root in this step and the
\* render of the child returns normally.
NodeReturns(r) ==
    /\ rpc[r] = "run"
    /\ rpos[r] <= Len(world.nodes[tmpl.root].children)
    /\ rpc'[r] \in {"run", "done"}
    /\ rpos'[r] = rpos[r] + 1

\* What a template of BindingTemplates renders when the names its tag bound
\* are not visible after the tag.
BindingText(r) ==
    IF tokens[1].tag = "for"
    THEN JoinWith([k \in 1..LenX(r) |-> Str(ItemsOfX(r)[k], EmptyDict)], "")
    ELSE IF tokens[1].tag = "with" THEN Str(rdata[r]["x"], EmptyDict)
    ELSE "[CG]"

\* C27: every render of a node that returns normally leaves the scope stack
\* of the Context as deep as it was and with the scopes it had: the scopes
\* a for iteration, a with tag and a block push are popped before the
\* render returns.
C27_ScopeStackRestored ==
    [][\A r \in Renders : NodeReturns(r) => ctx'[r].stack = ctx[r].stack]_vars

\* C27 for the templates that do not reach the Context by name: the stack
\* is restored by every node, and the loop variable, the loop record, the
\* with alias and super are not visible after the tag that bound them.
C27_BindingTagsRestore ==
    [][(tokens \in BindingTemplates) =>
           \A r \in Renders :
               /\ NodeReturns(r) => ctx'[r].stack = ctx[r].stack
               /\ rpc'[r] \notin Exceptions
               /\ rpc'[r] = "done" => out'[r] = BindingText(r)]_vars

\* C28: a render call changes neither the data dictionary the caller
\* supplied nor the builtins dictionary of the configuration.
C28_DataAndBuiltinsUnchanged ==
    /\ world.builtins = config_builtins
    /\ \A r \in Renders :
           "template" \in DOMAIN ctx[r] => ctx[r].data = rdata[r]

\* C28 for the templates that do not reach the Context by name: every write
\* of the render goes to a scope the render pushed.
C28_BindingTagsWriteOwnScopes ==
    tokens \in BindingTemplates =>
        /\ world.builtins = config_builtins
        /\ \A r \in Renders :
               "template" \in DOMAIN ctx[r] => ctx[r].data = rdata[r]

============================================================================
